---------------------------- MODULE Spec2Model ----------------------------
(***************************************************************************)
(* A model of the Remy voice companion: the Coze realtime client           *)
(* (src/coze_client.py), the audio handler (src/audio_handler.py) and the  *)
(* orchestrator that wires them (src/main.py).                             *)
(*                                                                         *)
(* Threads of the program and their actions here:                          *)
(*   - the caller (main thread): Connect, Disconnect, ShutdownAudio,       *)
(*     ShutdownCoze;                                                       *)
(*   - one receive thread per WebSocketApp (run_forever): WsOpen, WsError, *)
(*     WsClose and one action per inbound event handler; a handler and     *)
(*     the callbacks it invokes run to completion on that thread;          *)
(*   - the playback drain threads: PlaybackCheck, PlaybackGet,             *)
(*     PlaybackTimeout, PlaybackWrite, PlaybackWriteError;                 *)
(*   - the capture thread: CaptureLoop, one iteration per step; in         *)
(*     SpecAudio CaptureCheck, CaptureRead, CaptureReadError,              *)
(*     CaptureReadClosed, CaptureCall.                                     *)
(*                                                                         *)
(* The library under the client, websocket-client, is modelled at its     *)
(* interface: run_forever calls on_open once the handshake is done, calls  *)
(* on_message for each inbound message while the transport is open, calls  *)
(* on_error when the transport fails and on_close when it ends, whatever   *)
(* ended it; after close() no further message is dispatched.               *)
(*                                                                         *)
(* The specifications share the variables:                                 *)
(*   Spec          the program as main.py runs it: init(), one connect(),  *)
(*                 the three worker threads, and shutdown();               *)
(*   SpecClient    the CozeRealtimeClient driven through its public API by *)
(*                 any sequence of connect() and disconnect() calls;       *)
(*   SpecRoundTrip capture -> send_audio -> loopback -> audio delta ->     *)
(*                 play_audio -> drain, with no interruption;              *)
(*   SpecMessages  _on_ws_message of a ready session given any message,    *)
(*                 the callbacks it invokes observed;                      *)
(*   SpecEmotion   _detect_emotion_from_text applied to a text;            *)
(*   SpecAudio     the AudioHandler driven through its public API by any   *)
(*                 sequence of calls, its worker threads and play_audio    *)
(*                 stepping one shared access at a time.                   *)
(***************************************************************************)
EXTENDS Integers, Sequences, FiniteSets, TLC

(***************************************************************************)
(* Bounds of the model.                                                    *)
(***************************************************************************)
\* WebSocketApp objects the caller may create with connect().
MaxConns == 2
\* Assistant turns the remote service may open.
MaxTurns == 2
\* Frames play_audio may accept in one run.
MaxFrames == 2
\* Drain threads of start_playback that may exist at a time.
MaxThreads == 2
\* Frames the microphone delivers in one round trip.
MaxMic == 2
\* Longest frame, in 16-bit samples, of the round trip.
MaxFrameLen == 3
\* chat.update commands the remote service may leave unacknowledged.
MaxUnacked == 1
\* Where the count of stale frames written stops.
StaleCap == 2
\* Capture threads of start_capture that may exist at a time.
MaxCapThreads == 2
\* Words of a text given to the emotion detection.
MaxWords == 2
\* Updates of a level monitor in one run.
MaxUpdates == 3

Conns == 1..MaxConns
Threads == 1..MaxThreads
CapThreads == 1..MaxCapThreads

(***************************************************************************)
(* Values.  None is Python's None for the identifiers; NoEmotion is None   *)
(* for current_user_emotion.                                               *)
(***************************************************************************)
None == 0
NoEmotion == "none"
NoFrame == [id |-> 0, data |-> <<>>, turn |-> 0]

\* The 16-bit samples frames are built from, as their two bytes.
Samples == { <<0, 0>>, <<165, 255>> }

\* A base64 text is a sequence of characters: 0..63 are the alphabet, in the
\* alphabet's order, PadChar is '=', and BadChar is a character outside the
\* alphabet.
PadChar == 64
BadChar == 65

VARIABLES
    \* CozeRealtimeClient
    ws,                     \* index of self.ws, None before connect()
    conn,                   \* transport state of every WebSocketApp created
    is_connected,
    is_configured,
    conversation_id,
    current_chat_id,
    is_user_speaking,
    is_ai_speaking,
    is_processing,
    current_user_emotion,
    \* RemyCompanion
    is_ready,
    \* AudioHandler
    is_playing,
    output_stream,          \* TRUE when self.output_stream is a stream
    audio_queue,            \* self._audio_queue
    pb,                     \* the drain threads: position and frame in hand
    is_capturing,
    input_stream,           \* TRUE when self.input_stream is a stream
    \* the output device and what was discarded
    written,                \* frames written to the output device, in order
    flushed,                \* ids of the frames clear_playback_queue took
    lost,                   \* ids of the frames a drain thread gave up
    nextId,                 \* id of the next frame play_audio accepts
    \* the remote service
    srvTurn,                \* the turn the service has in progress, or None
    srvConn,                \* the transport that turn belongs to
    nTurns,                 \* turns the service has opened
    \* the caller
    phase,                  \* RemyCompanion: running, stopping, down
    lastCall,               \* the caller's last connect()/disconnect()
    \* what the last step did
    outbox,                 \* messages the step transmitted
    emitted,                \* callbacks the step invoked, when observed
    tracing,                \* TRUE in the runs that observe the callbacks
    voiced,                 \* turns that delivered an audio delta, when observed
    rx,                     \* the receive thread: idle or in a callback, when observed
    \* per transport
    requested,              \* disconnect() closed it
    surfaced,               \* the error callback ran for it
    acked,                  \* chat.updated was received on it
    greeted,                \* chat.created was received on it
    unacked,                \* chat.update commands it carried, not yet acked
    heard,                  \* it carried microphone audio
    created,                \* WebSocketApp objects created so far
    \* barge-in bookkeeping
    interruptedTurn,        \* the turn cancelled by the last barge-in
    staleWritten,           \* its frames written since that barge-in
    \* round trip
    mic,                    \* frames the input device will deliver
    wire,                   \* payloads held by the loopback network
    captured,               \* frames the capture loop has delivered
    \* emotion detection
    utterance,              \* the text given to _detect_emotion_from_text
    detected,               \* what it returned
    \* the AudioHandler under any caller
    cap,                    \* the capture threads: position in _capture_loop
    pa,                     \* the play_audio call in progress
    refused,                \* ids of the frames play_audio did not accept
    clearing,               \* the clear_playback_queue call in progress
    \* disconnect() against a send
    tx,                     \* the _send_event call in progress
    dc,                     \* TRUE inside disconnect(), after ws.close()
    \* the level monitor
    monitor                 \* an AudioLevelMonitor and its last update

clientVars == <<ws, conn, is_connected, is_configured, conversation_id,
                current_chat_id, is_user_speaking, is_ai_speaking,
                is_processing, current_user_emotion>>
sessionFields == <<is_connected, is_configured, conversation_id,
                   current_chat_id, is_user_speaking, is_ai_speaking,
                   is_processing, current_user_emotion>>
audioVars == <<is_playing, output_stream, audio_queue, pb, is_capturing,
               input_stream>>
deviceVars == <<written, flushed, lost, nextId>>
serverVars == <<srvTurn, srvConn, nTurns>>
callerVars == <<phase, lastCall>>
connGhost == <<requested, surfaced, acked, greeted>>
wireGhost == <<unacked, heard>>
bargeVars == <<interruptedTurn, staleWritten>>
tripVars == <<mic, wire, captured>>
traceVars == <<emitted, tracing, voiced, rx>>
emotionVars == <<utterance, detected>>
handlerVars == <<cap, pa, refused, clearing>>
sendVars == <<tx, dc>>
levelVars == <<monitor>>

vars == <<clientVars, is_ready, audioVars, deviceVars, serverVars, outbox,
          callerVars, connGhost, wireGhost, created, bargeVars, tripVars,
          traceVars, emotionVars, handlerVars, sendVars, levelVars>>

(***************************************************************************)
(* base64, as base64.b64encode and base64.b64decode (binascii.a2b_base64,  *)
(* not strict) compute it.                                                 *)
(***************************************************************************)
\* An encoder that leaves the padding out.
RECURSIVE B64EncodeUnpadded(_)
B64EncodeUnpadded(b) ==
    IF Len(b) = 0 THEN <<>>
    ELSE IF Len(b) = 1 THEN << b[1] \div 4, (b[1] % 4) * 16 >>
    ELSE IF Len(b) = 2 THEN
        << b[1] \div 4, (b[1] % 4) * 16 + (b[2] \div 16), (b[2] % 16) * 4 >>
    ELSE
        << b[1] \div 4, (b[1] % 4) * 16 + (b[2] \div 16),
           (b[2] % 16) * 4 + (b[3] \div 64), b[3] % 64 >>
        \o B64EncodeUnpadded(SubSeq(b, 4, Len(b)))

RECURSIVE B64Encode(_)
B64Encode(b) ==
    IF Len(b) = 0 THEN <<>>
    ELSE IF Len(b) = 1 THEN
        << b[1] \div 4, (b[1] % 4) * 16, PadChar, PadChar >>
    ELSE IF Len(b) = 2 THEN
        << b[1] \div 4, (b[1] % 4) * 16 + (b[2] \div 16),
           (b[2] % 16) * 4, PadChar >>
    ELSE
        << b[1] \div 4, (b[1] % 4) * 16 + (b[2] \div 16),
           (b[2] % 16) * 4 + (b[3] \div 64), b[3] % 64 >>
        \o B64Encode(SubSeq(b, 4, Len(b)))

\* The decoding loop: i is the next character, quad the position in the
\* current group of four, left the bits carried over, pads the padding
\* characters seen since the last data character.
RECURSIVE B64Loop(_, _, _, _, _, _)
B64Loop(s, i, quad, left, pads, out) ==
    IF i > Len(s) THEN [ok |-> (quad = 0), bytes |-> out]
    ELSE IF s[i] = PadChar THEN
        IF quad >= 2 /\ quad + pads + 1 >= 4
        THEN [ok |-> TRUE, bytes |-> out]
        ELSE B64Loop(s, i + 1, quad, left,
                     IF quad >= 2 THEN pads + 1 ELSE pads, out)
    ELSE IF s[i] >= 64 THEN B64Loop(s, i + 1, quad, left, pads, out)
    ELSE IF quad = 0 THEN B64Loop(s, i + 1, 1, s[i], 0, out)
    ELSE IF quad = 1 THEN
        B64Loop(s, i + 1, 2, s[i] % 16, 0,
                Append(out, left * 4 + (s[i] \div 16)))
    ELSE IF quad = 2 THEN
        B64Loop(s, i + 1, 3, s[i] % 4, 0,
                Append(out, left * 16 + (s[i] \div 4)))
    ELSE B64Loop(s, i + 1, 0, 0, 0, Append(out, left * 64 + s[i]))

\* [ok |-> FALSE] stands for the binascii.Error the decoder raises.
B64Decode(s) == B64Loop(s, 1, 0, 0, 0, <<>>)

(***************************************************************************)
(* Helpers shared by the handlers.                                         *)
(***************************************************************************)
Message(type, arg, data) ==
    [type |-> type, conn |-> ws, arg |-> arg, data |-> data]

\* _send_event: the messages that reach the transport.  Nothing is sent
\* when is_connected is false or self.ws is None; ws.send raises on a
\* transport that is not open, and the exception is logged and dropped.
send_event(type, arg, data) ==
    IF ~is_connected \/ ws = None THEN <<>>
    ELSE IF conn[ws] # "open" THEN <<>>
    ELSE << Message(type, arg, data) >>

\* _send_chat_config
send_chat_config == send_event("chat.update", "config", <<>>)

\* update_tts_emotion: emotion_map, then chat.update.
emotion_map(emotion) ==
    CASE emotion = "happy" -> "happy"
      [] emotion = "sad" -> "sad"
      [] emotion = "angry" -> "angry"
      [] emotion = "surprised" -> "surprise"
      [] emotion = "neutral" -> "neutral"
      [] OTHER -> "neutral"

update_tts_emotion(emotion) ==
    send_event("chat.update", emotion_map(emotion), <<>>)

\* A reply in the user's own emotion.
get_mirrored_emotion(user_emotion) ==
    IF user_emotion \in { "happy", "sad", "angry", "surprised", "neutral" }
    THEN user_emotion ELSE "neutral"

\* _get_empathetic_emotion
get_empathetic_emotion(user_emotion) ==
    CASE user_emotion = "happy" -> "happy"
      [] user_emotion = "sad" -> "sad"
      [] user_emotion = "angry" -> "neutral"
      [] user_emotion = "surprised" -> "happy"
      [] user_emotion = "neutral" -> "neutral"
      [] OTHER -> "neutral"

\* The ids of the frames of a queue.
RECURSIVE QueueIds(_)
QueueIds(q) ==
    IF Len(q) = 0 THEN {} ELSE {Head(q).id} \cup QueueIds(Tail(q))

\* play_audio: the queue after the call.
play_audio(q, frame) == IF is_playing THEN Append(q, frame) ELSE q

\* clear_playback_queue: the queue after the call.
clear_playback_queue(q) == <<>>

\* main.py on_state_change: the queue after the callback.
on_state_change(q, state) ==
    IF state = "listening" THEN clear_playback_queue(q) ELSE q


(***************************************************************************)
(* _detect_emotion_from_text.  A text is a sequence of characters, a       *)
(* character its Unicode code point.                                       *)
(***************************************************************************)
\* str.lower(), for the characters of the texts modelled: the ASCII capitals
\* have a lower case, the CJK characters, the punctuation and the emoji
\* have none.
lower_char(ch) == IF ch \in 65..90 THEN ch + 32 ELSE ch

lower(text) == [i \in 1..Len(text) |-> lower_char(text[i])]

\* kw in text
Contains(text, kw) ==
    \E i \in 1..(Len(text) - Len(kw) + 1) :
        \A j \in 1..Len(kw) : text[i + j - 1] = kw[j]

happy_keywords ==
    << <<21704, 21704>>, <<22075, 22075>>, <<24320, 24515>>,
       <<39640, 20852>>, <<22826, 22909, 20102>>, <<26834>>,
       <<30495, 26834>>, <<21385, 23475>>, <<24685, 21916>>,
       <<31069, 36154>>, <<27426, 36814>>, <<26399, 24453>>,
       <<20852, 22859>>, <<22826, 26834>>, <<22909, 29609>>,
       <<26377, 36259>>, <<21916, 27426>>, <<29233>>, <<24184, 31119>>,
       <<24555, 20048>>, <<22079, 22079>>, <<32822>>, <<21703>>,
       <<22909, 32822>>, <<104, 97, 104, 97>>, <<104, 101, 104, 101>>,
       <<104, 97, 112, 112, 121>>, <<103, 114, 101, 97, 116>>,
       <<97, 119, 101, 115, 111, 109, 101>>,
       <<119, 111, 110, 100, 101, 114, 102, 117, 108>>,
       <<101, 120, 99, 105, 116, 101, 100>>, <<65281, 65281>>,
       <<126, 126>>, <<94, 95, 94>>, <<58, 41>>, <<128522>>, <<128516>>,
       <<127881>> >>

sad_keywords ==
    << <<38590, 36807>>, <<20260, 24515>>, <<25265, 27465>>,
       <<23545, 19981, 36215>>, <<36951, 25022>>, <<21487, 24796>>,
       <<21769>>, <<21710>>, <<24515, 30140>>, <<21516, 24773>>,
       <<29702, 35299, 20320>>, <<19981, 23481, 26131>>, <<36763, 33510>>,
       <<22996, 23624>>, <<22833, 26395>>, <<115, 111, 114, 114, 121>>,
       <<115, 97, 100>>,
       <<117, 110, 102, 111, 114, 116, 117, 110, 97, 116, 101, 108, 121>>,
       <<114, 101, 103, 114, 101, 116>>, <<21596>>, <<46, 46, 46>>,
       <<128546>>, <<128532>> >>

angry_keywords ==
    << <<29983, 27668>>, <<24868, 24594>>, <<35752, 21388>>, <<28902>>,
       <<21487, 24694>>, <<27668, 27515>>, <<21463, 19981, 20102>>,
       <<19981, 34892>>, <<19981, 21487, 20197>>, <<19981, 20801, 35768>>,
       <<35686, 21578>>, <<27880, 24847>>, <<20005, 32899>>,
       <<97, 110, 103, 114, 121>>, <<97, 110, 110, 111, 121, 101, 100>>,
       <<115, 116, 111, 112>>, <<119, 97, 114, 110, 105, 110, 103>>,
       <<65281, 65281, 65281>>, <<128544>>, <<128548>> >>

surprised_keywords ==
    << <<21703>>, <<22825, 21738>>, <<30495, 30340, 21527>>,
       <<19981, 20250, 21543>>, <<23621, 28982>>, <<31455, 28982>>,
       <<27809, 24819, 21040>>, <<24847, 22806>>, <<24778, 35766>>,
       <<38663, 24778>>, <<21523>>, <<21834>>, <<35830>>, <<21670>>,
       <<119, 111, 119>>, <<114, 101, 97, 108, 108, 121>>,
       <<97, 109, 97, 122, 105, 110, 103>>,
       <<105, 110, 99, 114, 101, 100, 105, 98, 108, 101>>,
       <<115, 117, 114, 112, 114, 105, 115, 101, 100>>,
       <<119, 104, 97, 116>>, <<65311, 65311>>, <<63, 33>>,
       <<65281, 65311>>, <<128558>>, <<128562>>, <<129327>> >>

\* A dict that lists sad before happy.
CategoriesSadFirst == << "sad", "happy", "angry", "surprised" >>

\* The keys of scores, in the order the dict is built.
Categories == << "happy", "sad", "angry", "surprised" >>

keywords(category) ==
    CASE category = "happy" -> happy_keywords
      [] category = "sad" -> sad_keywords
      [] category = "angry" -> angry_keywords
      [] category = "surprised" -> surprised_keywords

\* sum(1 for kw in keywords if kw in text_lower)
score(text_lower, category) ==
    Cardinality({ k \in 1..Len(keywords(category)) :
                    Contains(text_lower, keywords(category)[k]) })

\* max(scores, key=scores.get): the keys are visited in order and a later
\* key replaces the best one only when its score is strictly greater.
RECURSIVE max_emotion(_, _, _)
max_emotion(scores, i, best) ==
    IF i > Len(Categories) THEN best
    ELSE max_emotion(scores, i + 1,
                     IF scores[Categories[i]] > scores[best]
                     THEN Categories[i] ELSE best)

detect_emotion_from_text(text) ==
    LET text_lower == lower(text)
        scores == [category \in { Categories[i] : i \in 1..Len(Categories) }
                     |-> score(text_lower, category)]
        best == max_emotion(scores, 2, Categories[1])
    IN IF scores[best] >= 1 THEN best ELSE NoEmotion

(***************************************************************************)
(* AudioLevelMonitor.  A level is a float in the source; here it is the    *)
(* whole number of parts of 1 / (Reference * 10^MaxUpdates), in which the  *)
(* smoothed level is exact for MaxUpdates updates with a smoothing given   *)
(* in tenths and a frame whose RMS is a whole number.                      *)
(***************************************************************************)
\* rms / 16384
Reference == 16384

RECURSIVE Power10(_)
Power10(k) == IF k = 0 THEN 1 ELSE 10 * Power10(k - 1)

\* The level 1.0
One == Reference * Power10(MaxUpdates)

\* struct.unpack(f'{sample_count}h', audio_data), one 16-bit sample from
\* two bytes, low byte first
int16(lo, hi) ==
    IF lo + 256 * hi >= 32768 THEN lo + 256 * hi - 65536 ELSE lo + 256 * hi

unpack(audio_data) ==
    [i \in 1..(Len(audio_data) \div 2) |->
        int16(audio_data[2 * i - 1], audio_data[2 * i])]

\* sum(s * s for s in samples)
RECURSIVE sum_squares(_)
sum_squares(samples) ==
    IF Len(samples) = 0 THEN 0
    ELSE Head(samples) * Head(samples) + sum_squares(Tail(samples))

\* math.sqrt, for a square: the root between lo and hi
RECURSIVE sqrt(_, _, _)
sqrt(n, lo, hi) ==
    IF lo >= hi THEN lo
    ELSE LET mid == (lo + hi + 1) \div 2
         IN IF mid * mid <= n THEN sqrt(n, mid, hi) ELSE sqrt(n, lo, mid - 1)

\* rms = math.sqrt(sum_squares / sample_count)
rms(samples) == sqrt(sum_squares(samples) \div Len(samples), 0, 32768)

\* rms / 16384 with no ceiling
normalize_unclamped(samples) ==
    IF Len(samples) > 0 THEN rms(samples) * Power10(MaxUpdates) ELSE 0

\* normalized = min(1.0, rms / 16384) if samples else 0.0
normalize(samples) ==
    IF Len(samples) > 0
    THEN IF rms(samples) * Power10(MaxUpdates) < One
         THEN rms(samples) * Power10(MaxUpdates) ELSE One
    ELSE 0

\* smoothing * current_level + (1 - smoothing) * normalized, the smoothing
\* in tenths
smooth(smoothing, current_level, normalized) ==
    (smoothing * current_level + (10 - smoothing) * normalized) \div 10

\* AudioLevelMonitor.__init__
NewMonitor(smoothing) ==
    [smoothing |-> smoothing, current_level |-> 0, normalized |-> 0,
     updates |-> 0, audio_data |-> <<>>, raised |-> FALSE]

(***************************************************************************)
(* The bookkeeping of a step: what it transmitted, the callbacks it        *)
(* invoked, and what the remote service has received by now.               *)
(***************************************************************************)
Min(a, b) == IF a < b THEN a ELSE b

RECURSIVE CountType(_, _, _)
CountType(out, type, c) ==
    IF Len(out) = 0 THEN 0
    ELSE (IF Head(out).type = type /\ Head(out).conn = c THEN 1 ELSE 0)
         + CountType(Tail(out), type, c)

Received(out) ==
    /\ unacked' = [c \in Conns |->
                     Min(MaxUnacked,
                         unacked[c] + CountType(out, "chat.update", c))]
    /\ heard' = [c \in Conns |->
                   heard[c] \/ CountType(out, "input_audio_buffer.append", c) > 0]

\* A callback invoked, with what it was given.
Cb(name, arg) == [cb |-> name, arg |-> arg, data |-> <<>>]

\* A callback given bytes or a text.
CbData(name, data) == [cb |-> name, arg |-> "", data |-> data]

StateChange(state) == Cb("state", state)

\* The callbacks main.py registers for the presentation: each calls into
\* the UI, on the thread that invokes it.
Presentation == { "ready", "state", "transcript", "emotion", "error" }

InvokesPresentation(em) ==
    \E i \in 1..Len(em) : em[i].cb \in Presentation

\* The callbacks are recorded for the runs that observe them.  A handler
\* calls its callbacks itself: where the receive thread is observed, it is
\* in the callback until the callback returns.
Callbacks(em) ==
    /\ emitted' = IF tracing THEN em ELSE <<>>
    /\ rx' = IF rx # "unobserved" /\ InvokesPresentation(em)
             THEN "callback" ELSE rx

StepEmit(out, em) ==
    /\ outbox' = out
    /\ Callbacks(em)
    /\ Received(out)

Step(out) == StepEmit(out, <<>>)

(***************************************************************************)
(* Initial states.                                                         *)
(***************************************************************************)
\* CozeRealtimeClient.__init__ and RemyCompanion.__init__
InitClient ==
    /\ ws = None
    /\ conn = [c \in Conns |-> "unused"]
    /\ is_connected = FALSE
    /\ is_configured = FALSE
    /\ conversation_id = None
    /\ current_chat_id = None
    /\ is_user_speaking = FALSE
    /\ is_ai_speaking = FALSE
    /\ is_processing = FALSE
    /\ current_user_emotion = NoEmotion
    /\ is_ready = FALSE
    /\ srvTurn = None
    /\ srvConn = None
    /\ nTurns = 0
    /\ phase = "running"
    /\ lastCall = "none"
    /\ outbox = <<>>
    /\ emitted = <<>>
    /\ voiced = {}
    /\ requested = [c \in Conns |-> FALSE]
    /\ surfaced = [c \in Conns |-> FALSE]
    /\ acked = [c \in Conns |-> FALSE]
    /\ greeted = [c \in Conns |-> FALSE]
    /\ unacked = [c \in Conns |-> 0]
    /\ heard = [c \in Conns |-> FALSE]
    /\ created = 0
    /\ interruptedTurn = None
    /\ staleWritten = 0

\* No text has been given to _detect_emotion_from_text.
InitNoText ==
    /\ utterance = <<>>
    /\ detected = NoEmotion

\* No _send_event call is in progress.
NoSend == [pc |-> "idle", data |-> <<>>]

\* No clear_playback_queue call is in progress or was made.
NoClear == [pc |-> "idle", queued |-> {}]

\* No play_audio call is in progress.
NoCall == [pc |-> "idle", frame |-> NoFrame]

\* The capture threads when start_capture() was called once: one thread, at
\* the head of its loop.  When it was never called: none.
OneCaptureThread == [t \in CapThreads |-> IF t = 1 THEN "check" ELSE "none"]

NoCaptureThread == [t \in CapThreads |-> "none"]

\* The output device and the round trip's bookkeeping, before anything ran.
InitDevice ==
    /\ written = <<>>
    /\ flushed = {}
    /\ lost = {}
    /\ nextId = 1
    /\ wire = <<>>
    /\ captured = <<>>
    /\ pa = NoCall
    /\ clearing = NoClear
    /\ tx = NoSend
    /\ dc = FALSE
    /\ refused = {}

\* The AudioHandler after RemyCompanion.init() called audio.start(): both
\* devices are open, one drain thread and the capture thread run.
InitAudioStarted ==
    /\ is_playing = TRUE
    /\ output_stream = TRUE
    /\ audio_queue = <<>>
    /\ pb = [t \in Threads |->
               [pc |-> IF t = 1 THEN "check" ELSE "none", held |-> NoFrame]]
    /\ is_capturing = TRUE
    /\ input_stream = TRUE
    /\ cap = OneCaptureThread

\* The AudioHandler of a caller that feeds the client microphone frames and
\* never started playback: start_capture() was called, start_playback() not.
InitAudioCaptureOnly ==
    /\ is_playing = FALSE
    /\ output_stream = FALSE
    /\ audio_queue = <<>>
    /\ pb = [t \in Threads |-> [pc |-> "none", held |-> NoFrame]]
    /\ is_capturing = TRUE
    /\ input_stream = TRUE
    /\ cap = OneCaptureThread

\* The program after RemyCompanion.init(), before connect().
Init ==
    /\ InitClient
    /\ InitNoText
    /\ InitDevice
    /\ InitAudioStarted
    /\ mic = <<>>
    /\ tracing = FALSE
    /\ monitor = NewMonitor(3)
    /\ rx = "unobserved"

(***************************************************************************)
(* The caller: connect(), disconnect() and shutdown().                     *)
(***************************************************************************)
\* connect(): a new WebSocketApp replaces self.ws and a new thread runs it.
\* No session field is written.
connect ==
    /\ created < MaxConns
    /\ created' = created + 1
    /\ ws' = created + 1
    /\ conn' = [conn EXCEPT ![created + 1] = "connecting"]
    /\ lastCall' = "connect"
    /\ Step(<<>>)
    /\ UNCHANGED <<is_connected, is_configured, conversation_id,
                   current_chat_id, is_user_speaking, is_ai_speaking,
                   is_processing, current_user_emotion, is_ready, is_playing,
                   output_stream, audio_queue, pb, is_capturing,
                   input_stream, written, flushed, lost, nextId, srvTurn,
                   srvConn, nTurns, phase, requested, surfaced, acked,
                   greeted, interruptedTurn, staleWritten, mic, wire,
                   captured, tracing, voiced, utterance, detected, cap, pa,
                   refused, tx, dc, monitor, clearing>>

\* disconnect(): self.ws.close() when there is a self.ws, then the two flags.
\* The transport's on_close runs later, on its own thread.
disconnect ==
    /\ conn' = IF ws # None /\ conn[ws] \in {"connecting", "open"}
               THEN [conn EXCEPT ![ws] = "closing"]
               ELSE conn
    /\ requested' = IF ws # None THEN [requested EXCEPT ![ws] = TRUE]
                    ELSE requested
    /\ is_connected' = FALSE
    /\ is_configured' = FALSE
    /\ lastCall' = "disconnect"
    /\ Step(<<>>)
    /\ UNCHANGED <<ws, conversation_id, current_chat_id, is_user_speaking,
                   is_ai_speaking, is_processing, current_user_emotion,
                   is_ready, is_playing, output_stream, audio_queue, pb,
                   is_capturing, input_stream, written, flushed, lost,
                   nextId, srvTurn, srvConn, nTurns, surfaced, acked,
                   greeted, created, interruptedTurn, staleWritten, mic,
                   wire, captured, tracing, voiced, utterance, detected, cap,
                   pa, refused, tx, dc, monitor, clearing>>

\* The client's caller, any caller: connect() and disconnect() at any time.
Connect == connect

Disconnect == disconnect /\ UNCHANGED phase

\* main.py run(): init(), then connect(), once.
RunConnect == phase = "running" /\ created = 0 /\ connect

\* main.py shutdown(), which run() reaches after connect(): audio.cleanup(),
\* that is stop_capture and stop_playback: the flags, the queue cleared,
\* both streams closed and set to None.
ShutdownAudio ==
    /\ phase = "running"
    /\ created > 0
    /\ phase' = "stopping"
    /\ is_capturing' = FALSE
    /\ input_stream' = FALSE
    /\ is_playing' = FALSE
    /\ audio_queue' = clear_playback_queue(audio_queue)
    /\ flushed' = flushed \cup QueueIds(audio_queue)
    /\ output_stream' = FALSE
    /\ Step(<<>>)
    /\ UNCHANGED <<ws, conn, is_connected, is_configured, conversation_id,
                   current_chat_id, is_user_speaking, is_ai_speaking,
                   is_processing, current_user_emotion, is_ready, pb,
                   written, lost, nextId, srvTurn, srvConn, nTurns, lastCall,
                   requested, surfaced, acked, greeted, created,
                   interruptedTurn, staleWritten, mic, wire, captured,
                   tracing, voiced, utterance, detected, cap, pa, refused,
                   tx, dc, monitor, clearing>>

\* main.py shutdown(), after audio.cleanup(): coze.disconnect().  The worker
\* threads are daemons and run on until the process exits.
ShutdownCoze ==
    /\ phase = "stopping"
    /\ phase' = "down"
    /\ disconnect

(***************************************************************************)
(* The receive thread of transport c: the transport's own events.          *)
(***************************************************************************)
\* _on_ws_open
WsOpen(c) ==
    /\ conn[c] = "connecting"
    /\ conn' = [conn EXCEPT ![c] = "open"]
    /\ is_connected' = TRUE
    /\ Step(<<>>)
    /\ UNCHANGED <<ws, is_configured, conversation_id, current_chat_id,
                   is_user_speaking, is_ai_speaking, is_processing,
                   current_user_emotion, is_ready, is_playing, output_stream,
                   audio_queue, pb, is_capturing, input_stream, written,
                   flushed, lost, nextId, srvTurn, srvConn, nTurns, phase,
                   lastCall, requested, surfaced, acked, greeted, created,
                   interruptedTurn, staleWritten, mic, wire, captured,
                   tracing, voiced, utterance, detected, cap, pa, refused,
                   tx, dc, monitor, clearing>>

\* _on_ws_error: run_forever caught a failure of the transport (the
\* connection attempt failed, the peer vanished, a pong was missed).  It
\* calls on_error and then tears the transport down, which calls on_close.
WsError(c) ==
    /\ conn[c] \in {"connecting", "open"}
    /\ conn' = [conn EXCEPT ![c] = "failed"]
    /\ surfaced' = [surfaced EXCEPT ![c] = TRUE]
    /\ StepEmit(<<>>, << Cb("error", "transport") >>)
    /\ UNCHANGED <<ws, is_connected, is_configured, conversation_id,
                   current_chat_id, is_user_speaking, is_ai_speaking,
                   is_processing, current_user_emotion, is_ready, is_playing,
                   output_stream, audio_queue, pb, is_capturing,
                   input_stream, written, flushed, lost, nextId, srvTurn,
                   srvConn, nTurns, phase, lastCall, requested, acked,
                   greeted, created, interruptedTurn, staleWritten, mic,
                   wire, captured, tracing, voiced, utterance, detected, cap,
                   pa, refused, tx, dc, monitor, clearing>>

\* A transport that reconnects by itself when it ends.
WsCloseReconnect(c) ==
    /\ conn[c] \in {"open", "failed", "closing"}
    /\ created < MaxConns
    /\ created' = created + 1
    /\ ws' = created + 1
    /\ conn' = [conn EXCEPT ![c] = "closed", ![created + 1] = "connecting"]
    /\ is_connected' = FALSE
    /\ is_configured' = FALSE
    /\ Step(<<>>)
    /\ UNCHANGED <<conversation_id, current_chat_id, is_user_speaking,
                   is_ai_speaking, is_processing, current_user_emotion,
                   is_ready, is_playing, output_stream, audio_queue, pb,
                   is_capturing, input_stream, written, flushed, lost,
                   nextId, srvTurn, srvConn, nTurns, phase, lastCall,
                   requested, surfaced, acked, greeted, interruptedTurn,
                   staleWritten, mic, wire, captured, tracing, voiced,
                   utterance, detected, cap, pa, refused, tx, dc, monitor,
                   clearing>>

\* _on_ws_close: the end of run_forever, after a failure, after the
\* caller's close(), or when the remote service closed the transport.
WsClose(c) ==
    /\ conn[c] \in {"open", "failed", "closing"}
    /\ conn' = [conn EXCEPT ![c] = "closed"]
    /\ is_connected' = FALSE
    /\ is_configured' = FALSE
    /\ Step(<<>>)
    /\ UNCHANGED <<ws, conversation_id, current_chat_id, is_user_speaking,
                   is_ai_speaking, is_processing, current_user_emotion,
                   is_ready, is_playing, output_stream, audio_queue, pb,
                   is_capturing, input_stream, written, flushed, lost,
                   nextId, srvTurn, srvConn, nTurns, phase, lastCall,
                   requested, surfaced, acked, greeted, created,
                   interruptedTurn, staleWritten, mic, wire, captured,
                   tracing, voiced, utterance, detected, cap, pa, refused,
                   tx, dc, monitor, clearing>>

(***************************************************************************)
(* The receive thread of transport c: the inbound events, _on_ws_message   *)
(* dispatching each to its handler.  What the remote service may send:     *)
(* chat.created once per transport, chat.updated for a chat.update it      *)
(* received, voice-activity and turn events on a transport that carried    *)
(* microphone audio, and the events of a turn while that turn is in        *)
(* progress on that transport.                                             *)
(***************************************************************************)
\* Server-issued identifiers and payloads.
ConversationIds(c) == {None, c}
ServerFrames == { <<0, 0>> }
\* The content of an audio delta: a frame encoded, nothing, or a text
\* base64 cannot decode (one character).
Payloads == { B64Encode(f) : f \in ServerFrames } \cup { <<>>, << 16 >> }
\* The error detail of a failed turn.
Details == { "quota", "timeout" }
Tags == { NoEmotion, "happy" }

\* _handle_chat_created
handle_chat_created(c) ==
    /\ conn[c] = "open"
    /\ ~greeted[c]
    /\ greeted' = [greeted EXCEPT ![c] = TRUE]
    /\ Step(send_chat_config)
    /\ UNCHANGED <<ws, conn, is_connected, is_configured, conversation_id,
                   current_chat_id, is_user_speaking, is_ai_speaking,
                   is_processing, current_user_emotion, is_ready, is_playing,
                   output_stream, audio_queue, pb, is_capturing,
                   input_stream, written, flushed, lost, nextId, srvTurn,
                   srvConn, nTurns, phase, lastCall, requested, surfaced,
                   acked, created, interruptedTurn, staleWritten, mic, wire,
                   captured, tracing, voiced, utterance, detected, cap, pa,
                   refused, tx, dc, monitor, clearing>>

\* _handle_chat_updated that tells the orchestrator nothing.
handle_chat_updated_unannounced(c, cid) ==
    /\ conn[c] = "open"
    /\ unacked[c] > 0
    /\ unacked' = [unacked EXCEPT ![c] = unacked[c] - 1]
    /\ acked' = [acked EXCEPT ![c] = TRUE]
    /\ is_configured' = TRUE
    /\ conversation_id' = cid
    /\ outbox' = <<>>
    /\ Callbacks(<<>>)
    /\ UNCHANGED <<ws, conn, is_connected, current_chat_id, is_user_speaking,
                   is_ai_speaking, is_processing, current_user_emotion,
                   is_ready, is_playing, output_stream, audio_queue, pb,
                   is_capturing, input_stream, written, flushed, lost,
                   nextId, srvTurn, srvConn, nTurns, phase, lastCall,
                   requested, surfaced, greeted, heard, created,
                   interruptedTurn, staleWritten, mic, wire, captured,
                   tracing, voiced, utterance, detected, cap, pa, refused,
                   tx, dc, monitor, clearing>>

\* _handle_chat_updated, with main.py on_ready and on_state_change("idle")
handle_chat_updated(c, cid) ==
    /\ conn[c] = "open"
    /\ unacked[c] > 0
    /\ unacked' = [unacked EXCEPT ![c] = unacked[c] - 1]
    /\ acked' = [acked EXCEPT ![c] = TRUE]
    /\ is_configured' = TRUE
    /\ conversation_id' = cid
    /\ is_ready' = TRUE
    /\ audio_queue' = on_state_change(audio_queue, "idle")
    /\ outbox' = <<>>
    /\ Callbacks(<< Cb("ready", ""), StateChange("idle") >>)
    /\ UNCHANGED <<ws, conn, is_connected, current_chat_id, is_user_speaking,
                   is_ai_speaking, is_processing, current_user_emotion,
                   is_playing, output_stream, pb, is_capturing, input_stream,
                   written, flushed, lost, nextId, srvTurn, srvConn, nTurns,
                   phase, lastCall, requested, surfaced, greeted, heard,
                   created, interruptedTurn, staleWritten, mic, wire,
                   captured, tracing, voiced, utterance, detected, cap, pa,
                   refused, tx, dc, monitor, clearing>>

\* _handle_chat_updated for an event whose "data" is null: is_configured is
\* set, then config.get raises AttributeError, which _on_ws_message catches
\* and logs.
chat_updated_without_data(c) ==
    /\ conn[c] = "open"
    /\ unacked[c] > 0
    /\ unacked' = [unacked EXCEPT ![c] = unacked[c] - 1]
    /\ acked' = [acked EXCEPT ![c] = TRUE]
    /\ is_configured' = TRUE
    /\ outbox' = <<>>
    /\ Callbacks(<< Cb("debug", "error handling message") >>)
    /\ UNCHANGED <<ws, conn, is_connected, conversation_id, current_chat_id,
                   is_user_speaking, is_ai_speaking, is_processing,
                   current_user_emotion, is_ready, is_playing, output_stream,
                   audio_queue, pb, is_capturing, input_stream, written,
                   flushed, lost, nextId, srvTurn, srvConn, nTurns, phase,
                   lastCall, requested, surfaced, greeted, heard, created,
                   interruptedTurn, staleWritten, mic, wire, captured,
                   tracing, voiced, utterance, detected, cap, pa, refused,
                   tx, dc, monitor, clearing>>

\* _handle_conversation_chat_created
handle_conversation_chat_created(c) ==
    /\ conn[c] = "open"
    /\ heard[c]
    /\ nTurns < MaxTurns
    /\ nTurns' = nTurns + 1
    /\ srvTurn' = nTurns + 1
    /\ srvConn' = c
    /\ current_chat_id' = nTurns + 1
    /\ is_processing' = TRUE
    /\ audio_queue' = on_state_change(audio_queue, "thinking")
    /\ StepEmit(<<>>, << StateChange("thinking") >>)
    /\ UNCHANGED <<ws, conn, is_connected, is_configured, conversation_id,
                   is_user_speaking, is_ai_speaking, current_user_emotion,
                   is_ready, is_playing, output_stream, pb, is_capturing,
                   input_stream, written, flushed, lost, nextId, phase,
                   lastCall, requested, surfaced, acked, greeted, created,
                   interruptedTurn, staleWritten, mic, wire, captured,
                   tracing, voiced, utterance, detected, cap, pa, refused,
                   tx, dc, monitor, clearing>>

\* _handle_conversation_chat_in_progress
handle_conversation_chat_in_progress(c) ==
    /\ conn[c] = "open"
    /\ srvTurn # None /\ srvConn = c
    /\ is_processing' = TRUE
    /\ Step(<<>>)
    /\ UNCHANGED <<ws, conn, is_connected, is_configured, conversation_id,
                   current_chat_id, is_user_speaking, is_ai_speaking,
                   current_user_emotion, is_ready, is_playing, output_stream,
                   audio_queue, pb, is_capturing, input_stream, written,
                   flushed, lost, nextId, srvTurn, srvConn, nTurns, phase,
                   lastCall, requested, surfaced, acked, greeted, created,
                   interruptedTurn, staleWritten, mic, wire, captured,
                   tracing, voiced, utterance, detected, cap, pa, refused,
                   tx, dc, monitor, clearing>>

\* _handle_conversation_audio_delta, with main.py on_audio (play_audio) and
\* on_state_change("speaking").  turn is the turn the audio belongs to.
audio_delta(c, payload, turn) ==
    LET dec == B64Decode(payload)
        deliver == Len(payload) > 0 /\ dec.ok
        frame == [id |-> nextId, data |-> dec.bytes, turn |-> turn]
    IN
    /\ conn[c] = "open"
    /\ deliver /\ is_playing => nextId <= MaxFrames
    /\ audio_queue' = IF deliver
                      THEN on_state_change(play_audio(audio_queue, frame),
                                           "speaking")
                      ELSE audio_queue
    /\ nextId' = IF deliver /\ is_playing THEN nextId + 1 ELSE nextId
    /\ is_ai_speaking' = TRUE
    /\ StepEmit(<<>>,
                (IF deliver THEN << CbData("audio", dec.bytes) >>
                 ELSE IF Len(payload) > 0
                 THEN << Cb("debug", "failed to decode") >> ELSE <<>>)
                \o (IF ~is_ai_speaking THEN << StateChange("speaking") >>
                    ELSE <<>>))
    /\ UNCHANGED <<ws, conn, is_connected, is_configured, conversation_id,
                   current_chat_id, is_user_speaking, is_processing,
                   current_user_emotion, is_ready, is_playing, output_stream,
                   pb, is_capturing, input_stream, written, flushed, lost,
                   srvTurn, srvConn, nTurns, phase, lastCall, requested,
                   surfaced, acked, greeted, created, interruptedTurn,
                   staleWritten, tracing, utterance, detected, cap, pa,
                   refused, tx, dc, monitor, clearing>>

handle_conversation_audio_delta(c, payload) ==
    /\ srvTurn # None /\ srvConn = c
    /\ audio_delta(c, payload, srvTurn)
    /\ UNCHANGED tripVars
    /\ UNCHANGED voiced

\* The same, the turn recorded as one that delivered audio.
audio_delta_of_turn(c, payload) ==
    /\ srvTurn # None /\ srvConn = c
    /\ audio_delta(c, payload, srvTurn)
    /\ UNCHANGED tripVars
    /\ voiced' = voiced \cup {srvTurn}

\* _handle_conversation_audio_sentence_start: the emotion the text shows, if
\* any, goes to the emotion callback, and the text to on_ai_transcript.
\* Nothing is transmitted.
sentence_start(c, txt) ==
    /\ conn[c] = "open"
    /\ srvTurn # None /\ srvConn = c
    /\ \E emotion \in { IF Len(txt) > 0 THEN detect_emotion_from_text(txt)
                         ELSE NoEmotion } :
           StepEmit(<<>>,
                    (IF emotion # NoEmotion THEN << Cb("emotion", emotion) >>
                     ELSE <<>>)
                    \o (IF Len(txt) > 0
                        THEN << CbData("ai_transcript", txt) >> ELSE <<>>))
    /\ UNCHANGED <<ws, conn, is_connected, is_configured, conversation_id,
                   current_chat_id, is_user_speaking, is_ai_speaking,
                   is_processing, current_user_emotion, is_ready, is_playing,
                   output_stream, audio_queue, pb, is_capturing,
                   input_stream, written, flushed, lost, nextId, srvTurn,
                   srvConn, nTurns, phase, lastCall, requested, surfaced,
                   acked, greeted, created, interruptedTurn, staleWritten,
                   mic, wire, captured, tracing, voiced, utterance, detected,
                   cap, pa, refused, tx, dc, monitor, clearing>>

\* _handle_conversation_audio_completed
handle_conversation_audio_completed(c) ==
    /\ conn[c] = "open"
    /\ srvTurn # None /\ srvConn = c
    /\ is_ai_speaking' = FALSE
    /\ is_processing' = FALSE
    /\ audio_queue' = on_state_change(audio_queue, "idle")
    /\ StepEmit(<<>>, << StateChange("idle") >>)
    /\ UNCHANGED <<ws, conn, is_connected, is_configured, conversation_id,
                   current_chat_id, is_user_speaking, current_user_emotion,
                   is_ready, is_playing, output_stream, pb, is_capturing,
                   input_stream, written, flushed, lost, nextId, srvTurn,
                   srvConn, nTurns, phase, lastCall, requested, surfaced,
                   acked, greeted, created, interruptedTurn, staleWritten,
                   mic, wire, captured, tracing, voiced, utterance, detected,
                   cap, pa, refused, tx, dc, monitor, clearing>>

\* _handle_conversation_chat_completed
handle_conversation_chat_completed(c) ==
    /\ conn[c] = "open"
    /\ srvTurn # None /\ srvConn = c
    /\ srvTurn' = None
    /\ is_processing' = FALSE
    /\ is_ai_speaking' = FALSE
    /\ audio_queue' = on_state_change(audio_queue, "idle")
    /\ StepEmit(<<>>, << StateChange("idle") >>)
    /\ UNCHANGED <<ws, conn, is_connected, is_configured, conversation_id,
                   current_chat_id, is_user_speaking, current_user_emotion,
                   is_ready, is_playing, output_stream, pb, is_capturing,
                   input_stream, written, flushed, lost, nextId, srvConn,
                   nTurns, phase, lastCall, requested, surfaced, acked,
                   greeted, created, interruptedTurn, staleWritten, mic,
                   wire, captured, tracing, voiced, utterance, detected, cap,
                   pa, refused, tx, dc, monitor, clearing>>

\* _handle_conversation_chat_failed, detail the data of the event
chat_failed(c, detail) ==
    /\ conn[c] = "open"
    /\ srvTurn # None /\ srvConn = c
    /\ srvTurn' = None
    /\ is_processing' = FALSE
    /\ audio_queue' = on_state_change(audio_queue, "idle")
    /\ StepEmit(<<>>, << Cb("error", detail), StateChange("idle") >>)
    /\ UNCHANGED <<ws, conn, is_connected, is_configured, conversation_id,
                   current_chat_id, is_user_speaking, is_ai_speaking,
                   current_user_emotion, is_ready, is_playing, output_stream,
                   pb, is_capturing, input_stream, written, flushed, lost,
                   nextId, srvConn, nTurns, phase, lastCall, requested,
                   surfaced, acked, greeted, created, interruptedTurn,
                   staleWritten, mic, wire, captured, tracing, voiced,
                   utterance, detected, cap, pa, refused, tx, dc, monitor,
                   clearing>>

handle_conversation_chat_failed(c) ==
    \E detail \in Details : chat_failed(c, detail)

\* _handle_conversation_chat_canceled
handle_conversation_chat_canceled(c) ==
    /\ conn[c] = "open"
    /\ srvTurn # None /\ srvConn = c
    /\ srvTurn' = None
    /\ is_ai_speaking' = FALSE
    /\ is_processing' = FALSE
    /\ Step(<<>>)
    /\ UNCHANGED <<ws, conn, is_connected, is_configured, conversation_id,
                   current_chat_id, is_user_speaking, current_user_emotion,
                   is_ready, is_playing, output_stream, audio_queue, pb,
                   is_capturing, input_stream, written, flushed, lost,
                   nextId, srvConn, nTurns, phase, lastCall, requested,
                   surfaced, acked, greeted, created, interruptedTurn,
                   staleWritten, mic, wire, captured, tracing, voiced,
                   utterance, detected, cap, pa, refused, tx, dc, monitor,
                   clearing>>

\* A cancel_response that transmits nothing.
cancel_response_dropped == <<>>

\* cancel_response: the messages transmitted; is_ai_speaking is cleared by
\* the handler below.
cancel_response == send_event("conversation.chat.cancel", "", <<>>)

\* _handle_input_audio_buffer_speech_started, with cancel_response and
\* main.py on_state_change("listening"), which clears the playback queue.
handle_input_audio_buffer_speech_started(c) ==
    /\ conn[c] = "open"
    /\ heard[c]
    /\ is_user_speaking' = TRUE
    /\ is_ai_speaking' = FALSE
    /\ audio_queue' = on_state_change(audio_queue, "listening")
    /\ flushed' = flushed \cup
                    (QueueIds(audio_queue)
                     \ QueueIds(on_state_change(audio_queue, "listening")))
    /\ interruptedTurn' = IF is_ai_speaking THEN srvTurn ELSE interruptedTurn
    /\ staleWritten' = IF is_ai_speaking THEN 0 ELSE staleWritten
    /\ StepEmit(IF is_ai_speaking THEN cancel_response ELSE <<>>,
                << StateChange("listening") >>)
    /\ UNCHANGED <<ws, conn, is_connected, is_configured, conversation_id,
                   current_chat_id, is_processing, current_user_emotion,
                   is_ready, is_playing, output_stream, pb, is_capturing,
                   input_stream, written, lost, nextId, srvTurn, srvConn,
                   nTurns, phase, lastCall, requested, surfaced, acked,
                   greeted, created, mic, wire, captured, tracing, voiced,
                   utterance, detected, cap, pa, refused, tx, dc, monitor,
                   clearing>>

\* _handle_input_audio_buffer_speech_stopped
handle_input_audio_buffer_speech_stopped(c) ==
    /\ conn[c] = "open"
    /\ heard[c]
    /\ is_user_speaking' = FALSE
    /\ audio_queue' = on_state_change(audio_queue, "thinking")
    /\ StepEmit(<<>>, << StateChange("thinking") >>)
    /\ UNCHANGED <<ws, conn, is_connected, is_configured, conversation_id,
                   current_chat_id, is_ai_speaking, is_processing,
                   current_user_emotion, is_ready, is_playing, output_stream,
                   pb, is_capturing, input_stream, written, flushed, lost,
                   nextId, srvTurn, srvConn, nTurns, phase, lastCall,
                   requested, surfaced, acked, greeted, created,
                   interruptedTurn, staleWritten, mic, wire, captured,
                   tracing, voiced, utterance, detected, cap, pa, refused,
                   tx, dc, monitor, clearing>>

\* A transcript-final handler that takes an utterance with no emotion for a
\* neutral one.
transcript_completed_neutral(c, tag, txt) ==
    /\ conn[c] = "open"
    /\ heard[c]
    /\ \E found \in { IF tag # NoEmotion THEN tag
                       ELSE IF Len(txt) > 0
                       THEN detect_emotion_from_text(txt)
                       ELSE NoEmotion } :
       \E emotion \in { IF found # NoEmotion THEN found ELSE "neutral" } :
           /\ current_user_emotion' = emotion
           /\ StepEmit(update_tts_emotion(get_empathetic_emotion(emotion)),
                       << Cb("emotion", emotion) >>
                       \o (IF Len(txt) > 0 THEN << CbData("transcript", txt) >>
                           ELSE <<>>))
    /\ UNCHANGED <<ws, conn, is_connected, is_configured, conversation_id,
                   current_chat_id, is_user_speaking, is_ai_speaking,
                   is_processing, is_ready, is_playing, output_stream,
                   audio_queue, pb, is_capturing, input_stream, written,
                   flushed, lost, nextId, srvTurn, srvConn, nTurns, phase,
                   lastCall, requested, surfaced, acked, greeted, created,
                   interruptedTurn, staleWritten, mic, wire, captured,
                   tracing, voiced, utterance, detected, cap, pa, refused,
                   tx, dc, monitor, clearing>>

\* _handle_conversation_audio_transcript_completed: the emotion is the tag
\* the remote service supplied, else what the text shows, if anything.
transcript_completed(c, tag, txt) ==
    /\ conn[c] = "open"
    /\ heard[c]
    /\ \E emotion \in { IF tag # NoEmotion THEN tag
                         ELSE IF Len(txt) > 0
                         THEN detect_emotion_from_text(txt)
                         ELSE NoEmotion } :
           /\ current_user_emotion' = IF emotion # NoEmotion THEN emotion
                                      ELSE current_user_emotion
           /\ StepEmit(IF emotion # NoEmotion
                       THEN update_tts_emotion(get_empathetic_emotion(emotion))
                       ELSE <<>>,
                       (IF emotion # NoEmotion THEN << Cb("emotion", emotion) >>
                        ELSE <<>>)
                       \o (IF Len(txt) > 0 THEN << CbData("transcript", txt) >>
                           ELSE <<>>))
    /\ UNCHANGED <<ws, conn, is_connected, is_configured, conversation_id,
                   current_chat_id, is_user_speaking, is_ai_speaking,
                   is_processing, is_ready, is_playing, output_stream,
                   audio_queue, pb, is_capturing, input_stream, written,
                   flushed, lost, nextId, srvTurn, srvConn, nTurns, phase,
                   lastCall, requested, surfaced, acked, greeted, created,
                   interruptedTurn, staleWritten, mic, wire, captured,
                   tracing, voiced, utterance, detected, cap, pa, refused,
                   tx, dc, monitor, clearing>>

\* The same for an utterance whose text is empty.
handle_conversation_audio_transcript_completed(c, tag) ==
    transcript_completed(c, tag, <<>>)

\* _handle_conversation_chat_requires_action: the event is logged.
handle_conversation_chat_requires_action(c) ==
    /\ conn[c] = "open"
    /\ StepEmit(<<>>, << Cb("debug", "action required") >>)
    /\ UNCHANGED <<ws, conn, is_connected, is_configured, conversation_id,
                   current_chat_id, is_user_speaking, is_ai_speaking,
                   is_processing, current_user_emotion, is_ready, is_playing,
                   output_stream, audio_queue, pb, is_capturing,
                   input_stream, written, flushed, lost, nextId, srvTurn,
                   srvConn, nTurns, phase, lastCall, requested, surfaced,
                   acked, greeted, created, interruptedTurn, staleWritten,
                   mic, wire, captured, tracing, voiced, utterance, detected,
                   cap, pa, refused, tx, dc, monitor, clearing>>

\* An unhandled event reported through the error callback.
unhandled_event_error(c) ==
    /\ conn[c] = "open"
    /\ StepEmit(<<>>, << Cb("error", "unhandled event") >>)
    /\ UNCHANGED <<ws, conn, is_connected, is_configured, conversation_id,
                   current_chat_id, is_user_speaking, is_ai_speaking,
                   is_processing, current_user_emotion, is_ready, is_playing,
                   output_stream, audio_queue, pb, is_capturing,
                   input_stream, written, flushed, lost, nextId, srvTurn,
                   srvConn, nTurns, phase, lastCall, requested, surfaced,
                   acked, greeted, created, interruptedTurn, staleWritten,
                   mic, wire, captured, tracing, voiced, utterance, detected,
                   cap, pa, refused, tx, dc, monitor, clearing>>

\* _on_ws_message for an event no handler is defined for: it is logged.
unhandled_event(c) ==
    /\ conn[c] = "open"
    /\ StepEmit(<<>>, << Cb("debug", "unhandled event") >>)
    /\ UNCHANGED <<ws, conn, is_connected, is_configured, conversation_id,
                   current_chat_id, is_user_speaking, is_ai_speaking,
                   is_processing, current_user_emotion, is_ready, is_playing,
                   output_stream, audio_queue, pb, is_capturing,
                   input_stream, written, flushed, lost, nextId, srvTurn,
                   srvConn, nTurns, phase, lastCall, requested, surfaced,
                   acked, greeted, created, interruptedTurn, staleWritten,
                   mic, wire, captured, tracing, voiced, utterance, detected,
                   cap, pa, refused, tx, dc, monitor, clearing>>

\* _on_ws_message for a message json.loads rejects: it is logged.
parse_failed(c) ==
    /\ conn[c] = "open"
    /\ StepEmit(<<>>, << Cb("debug", "failed to parse") >>)
    /\ UNCHANGED <<ws, conn, is_connected, is_configured, conversation_id,
                   current_chat_id, is_user_speaking, is_ai_speaking,
                   is_processing, current_user_emotion, is_ready, is_playing,
                   output_stream, audio_queue, pb, is_capturing,
                   input_stream, written, flushed, lost, nextId, srvTurn,
                   srvConn, nTurns, phase, lastCall, requested, surfaced,
                   acked, greeted, created, interruptedTurn, staleWritten,
                   mic, wire, captured, tracing, voiced, utterance, detected,
                   cap, pa, refused, tx, dc, monitor, clearing>>

(***************************************************************************)
(* The capture thread.                                                     *)
(***************************************************************************)
\* The frames the input device delivers.
MicFrames == { <<0, 0>>, <<165, 255>> }

\* send_audio: the messages transmitted for one frame.
send_audio(data) ==
    IF ~is_connected \/ ~is_configured THEN <<>>
    ELSE send_event("input_audio_buffer.append", "", B64Encode(data))

\* A callback that transmits every frame once the transport is open.
on_audio_chunk_unguarded(data) ==
    send_event("input_audio_buffer.append", "", B64Encode(data))

\* main.py _on_audio_chunk
on_audio_chunk(data) == IF is_ready THEN send_audio(data) ELSE <<>>

\* One iteration of _capture_loop: read a frame, hand it to the callback.
capture_loop(data) ==
    /\ is_capturing /\ input_stream
    /\ Len(data) > 0
    /\ Step(on_audio_chunk(data))
    /\ UNCHANGED <<ws, conn, is_connected, is_configured, conversation_id,
                   current_chat_id, is_user_speaking, is_ai_speaking,
                   is_processing, current_user_emotion, is_ready, is_playing,
                   output_stream, audio_queue, pb, is_capturing,
                   input_stream, written, flushed, lost, nextId, srvTurn,
                   srvConn, nTurns, phase, lastCall, requested, surfaced,
                   acked, greeted, created, interruptedTurn, staleWritten,
                   tracing, voiced, utterance, detected, cap, pa, refused,
                   tx, dc, monitor, clearing>>

CaptureLoop ==
    \E data \in MicFrames : capture_loop(data) /\ UNCHANGED tripVars

(***************************************************************************)
(* The drain threads: _playback_loop, one step per shared access.          *)
(***************************************************************************)
PlaybackStep(t, pc, frame) ==
    pb' = [pb EXCEPT ![t] = [pc |-> pc, held |-> frame]]

\* while self.is_playing and self.output_stream
PlaybackCheck(t) ==
    /\ pb[t].pc = "check"
    /\ PlaybackStep(t, IF is_playing /\ output_stream THEN "get" ELSE "exit",
                    NoFrame)
    /\ Step(<<>>)
    /\ UNCHANGED <<ws, conn, is_connected, is_configured, conversation_id,
                   current_chat_id, is_user_speaking, is_ai_speaking,
                   is_processing, current_user_emotion, is_ready, is_playing,
                   output_stream, audio_queue, is_capturing, input_stream,
                   written, flushed, lost, nextId, srvTurn, srvConn, nTurns,
                   phase, lastCall, requested, surfaced, acked, greeted,
                   created, interruptedTurn, staleWritten, mic, wire,
                   captured, tracing, voiced, utterance, detected, cap, pa,
                   refused, tx, dc, monitor, clearing>>

\* A get that leaves the frame in the queue.
PlaybackGetPeek(t) ==
    /\ pb[t].pc = "get"
    /\ Len(audio_queue) > 0
    /\ PlaybackStep(t, "hold", Head(audio_queue))
    /\ Step(<<>>)
    /\ UNCHANGED <<ws, conn, is_connected, is_configured, conversation_id,
                   current_chat_id, is_user_speaking, is_ai_speaking,
                   is_processing, current_user_emotion, is_ready, is_playing,
                   output_stream, audio_queue, is_capturing, input_stream,
                   written, flushed, lost, nextId, srvTurn, srvConn, nTurns,
                   phase, lastCall, requested, surfaced, acked, greeted,
                   created, interruptedTurn, staleWritten, mic, wire,
                   captured, tracing, voiced, utterance, detected, cap, pa,
                   refused, tx, dc, monitor, clearing>>

\* self._audio_queue.get(timeout=0.1) returning a frame
PlaybackGet(t) ==
    /\ pb[t].pc = "get"
    /\ Len(audio_queue) > 0
    /\ audio_queue' = Tail(audio_queue)
    /\ PlaybackStep(t, "hold", Head(audio_queue))
    /\ Step(<<>>)
    /\ UNCHANGED <<ws, conn, is_connected, is_configured, conversation_id,
                   current_chat_id, is_user_speaking, is_ai_speaking,
                   is_processing, current_user_emotion, is_ready, is_playing,
                   output_stream, is_capturing, input_stream, written,
                   flushed, lost, nextId, srvTurn, srvConn, nTurns, phase,
                   lastCall, requested, surfaced, acked, greeted, created,
                   interruptedTurn, staleWritten, mic, wire, captured,
                   tracing, voiced, utterance, detected, cap, pa, refused,
                   tx, dc, monitor, clearing>>

\* self._audio_queue.get(timeout=0.1) raising queue.Empty: continue
PlaybackTimeout(t) ==
    /\ pb[t].pc = "get"
    /\ Len(audio_queue) = 0
    /\ PlaybackStep(t, "check", NoFrame)
    /\ Step(<<>>)
    /\ UNCHANGED <<ws, conn, is_connected, is_configured, conversation_id,
                   current_chat_id, is_user_speaking, is_ai_speaking,
                   is_processing, current_user_emotion, is_ready, is_playing,
                   output_stream, audio_queue, is_capturing, input_stream,
                   written, flushed, lost, nextId, srvTurn, srvConn, nTurns,
                   phase, lastCall, requested, surfaced, acked, greeted,
                   created, interruptedTurn, staleWritten, mic, wire,
                   captured, tracing, voiced, utterance, detected, cap, pa,
                   refused, tx, dc, monitor, clearing>>

\* if data and self.output_stream: self.output_stream.write(data)
PlaybackWrite(t) ==
    LET frame == pb[t].held
        writes == Len(frame.data) > 0 /\ output_stream
        stale == writes /\ interruptedTurn # None
                        /\ frame.turn = interruptedTurn
    IN
    /\ pb[t].pc = "hold"
    /\ written' = IF writes THEN Append(written, frame) ELSE written
    /\ lost' = IF writes THEN lost ELSE lost \cup {frame.id}
    /\ staleWritten' = IF stale THEN Min(StaleCap, staleWritten + 1)
                       ELSE staleWritten
    /\ PlaybackStep(t, "check", NoFrame)
    /\ Step(<<>>)
    /\ UNCHANGED <<ws, conn, is_connected, is_configured, conversation_id,
                   current_chat_id, is_user_speaking, is_ai_speaking,
                   is_processing, current_user_emotion, is_ready, is_playing,
                   output_stream, audio_queue, is_capturing, input_stream,
                   flushed, nextId, srvTurn, srvConn, nTurns, phase,
                   lastCall, requested, surfaced, acked, greeted, created,
                   interruptedTurn, mic, wire, captured, tracing, voiced,
                   utterance, detected, cap, pa, refused, tx, dc, monitor,
                   clearing>>

\* self.output_stream.write(data) raising: the error is logged and the loop
\* left; is_playing and the queue are not touched.
PlaybackWriteError(t) ==
    /\ pb[t].pc = "hold"
    /\ Len(pb[t].held.data) > 0
    /\ lost' = lost \cup {pb[t].held.id}
    /\ PlaybackStep(t, "exit", NoFrame)
    /\ Step(<<>>)
    /\ UNCHANGED <<ws, conn, is_connected, is_configured, conversation_id,
                   current_chat_id, is_user_speaking, is_ai_speaking,
                   is_processing, current_user_emotion, is_ready, is_playing,
                   output_stream, audio_queue, is_capturing, input_stream,
                   written, flushed, nextId, srvTurn, srvConn, nTurns, phase,
                   lastCall, requested, surfaced, acked, greeted, created,
                   interruptedTurn, staleWritten, mic, wire, captured,
                   tracing, voiced, utterance, detected, cap, pa, refused,
                   tx, dc, monitor, clearing>>

(***************************************************************************)
(* The specifications.                                                     *)
(***************************************************************************)
Transport ==
    \E c \in Conns : WsOpen(c) \/ WsError(c) \/ WsClose(c)

Inbound ==
    \E c \in Conns :
        \/ handle_chat_created(c)
        \/ \E cid \in ConversationIds(c) : handle_chat_updated(c, cid)
        \/ handle_conversation_chat_created(c)
        \/ handle_conversation_chat_in_progress(c)
        \/ \E payload \in Payloads : handle_conversation_audio_delta(c, payload)
        \/ handle_conversation_audio_completed(c)
        \/ handle_conversation_chat_completed(c)
        \/ handle_conversation_chat_failed(c)
        \/ handle_conversation_chat_canceled(c)
        \/ handle_input_audio_buffer_speech_started(c)
        \/ handle_input_audio_buffer_speech_stopped(c)
        \/ \E tag \in Tags :
               handle_conversation_audio_transcript_completed(c, tag)

Drain ==
    \E t \in Threads :
        \/ PlaybackCheck(t)
        \/ PlaybackGet(t)
        \/ PlaybackTimeout(t)
        \/ PlaybackWrite(t)
        \/ PlaybackWriteError(t)

\* The program as main.py runs it.
Next ==
    \/ RunConnect
    \/ ShutdownAudio
    \/ ShutdownCoze
    \/ Transport
    \/ Inbound
    \/ CaptureLoop
    \/ Drain

Spec == Init /\ [][Next]_vars

\* The client under any caller.
InitClientOnly ==
    /\ InitClient
    /\ InitNoText
    /\ InitDevice
    /\ InitAudioCaptureOnly
    /\ mic = <<>>
    /\ tracing = FALSE
    /\ monitor = NewMonitor(3)
    /\ rx = "unobserved"

NextClient ==
    \/ Connect
    \/ Disconnect
    \/ Transport
    \/ Inbound
    \/ CaptureLoop

SpecClient == InitClientOnly /\ [][NextClient]_vars

(***************************************************************************)
(* The round trip: the frames of the microphone go through send_audio to   *)
(* a network that loops every input_audio_buffer.append back, in order, as *)
(* a conversation.audio.delta; the handler decodes and queues them, the    *)
(* drain thread writes them.  The session is ready, nobody interrupts and  *)
(* the output device does not fail.                                        *)
(***************************************************************************)
\* Frames of 1..MaxFrameLen samples, as byte sequences.
RECURSIVE FramesOfLen(_)
FramesOfLen(n) ==
    IF n = 0 THEN { <<>> }
    ELSE { f \o s : f \in FramesOfLen(n - 1), s \in Samples }

RTFrames == UNION { FramesOfLen(n) : n \in 1..MaxFrameLen }

RECURSIVE SeqsOfLen(_, _)
SeqsOfLen(S, n) ==
    IF n = 0 THEN { <<>> }
    ELSE { Append(q, x) : q \in SeqsOfLen(S, n - 1), x \in S }

\* The payloads of the append messages of an outbox.
RECURSIVE AppendPayloads(_)
AppendPayloads(out) ==
    IF Len(out) = 0 THEN <<>>
    ELSE (IF Head(out).type = "input_audio_buffer.append"
          THEN << Head(out).data >> ELSE <<>>)
         \o AppendPayloads(Tail(out))

\* The session after connect(), on_open, chat.created and chat.updated.
InitRoundTrip ==
    /\ ws = 1
    /\ conn = [c \in Conns |-> IF c = 1 THEN "open" ELSE "unused"]
    /\ is_connected = TRUE
    /\ is_configured = TRUE
    /\ conversation_id = 1
    /\ current_chat_id = None
    /\ is_user_speaking = FALSE
    /\ is_ai_speaking = FALSE
    /\ is_processing = FALSE
    /\ current_user_emotion = NoEmotion
    /\ is_ready = TRUE
    /\ srvTurn = None
    /\ srvConn = None
    /\ nTurns = 0
    /\ phase = "running"
    /\ lastCall = "connect"
    /\ outbox = <<>>
    /\ emitted = <<>>
    /\ voiced = {}
    /\ requested = [c \in Conns |-> FALSE]
    /\ surfaced = [c \in Conns |-> FALSE]
    /\ acked = [c \in Conns |-> c = 1]
    /\ greeted = [c \in Conns |-> c = 1]
    /\ unacked = [c \in Conns |-> 0]
    /\ heard = [c \in Conns |-> FALSE]
    /\ created = 1
    /\ interruptedTurn = None
    /\ staleWritten = 0
    /\ utterance = <<>>
    /\ detected = NoEmotion
    /\ tracing = FALSE
    /\ monitor = NewMonitor(3)
    /\ rx = "unobserved"
    /\ InitDevice
    /\ InitAudioStarted
    /\ mic \in UNION { SeqsOfLen(RTFrames, n) : n \in 1..MaxMic }

\* The capture loop reads the next frame of the microphone; what send_audio
\* transmits goes onto the wire.
RTCapture ==
    /\ Len(mic) > 0
    /\ capture_loop(Head(mic))
    /\ mic' = Tail(mic)
    /\ captured' = Append(captured, Head(mic))
    /\ wire' = wire \o AppendPayloads(outbox')

\* The network hands the oldest payload to the receive thread.
RTLoopback ==
    /\ Len(wire) > 0
    /\ ws # None
    /\ audio_delta(ws, Head(wire), None)
    /\ wire' = Tail(wire)
    /\ UNCHANGED <<mic, captured, voiced>>

RTDrain ==
    \E t \in Threads :
        \/ PlaybackCheck(t)
        \/ PlaybackGet(t)
        \/ PlaybackTimeout(t)
        \/ PlaybackWrite(t)

NextRoundTrip ==
    \/ RTCapture
    \/ RTLoopback
    \/ RTDrain

SpecRoundTrip == InitRoundTrip /\ [][NextRoundTrip]_vars

(***************************************************************************)
(* _on_ws_message: a message is parsed, the handler is looked up by the   *)
(* name made from the event type, and called.  An event type is a string; *)
(* here it is the sequence of its words and of the separators between     *)
(* them.                                                                   *)
(***************************************************************************)
\* event_type.replace('.', '_'), the name after the _handle_ prefix
handler_name(event_type) ==
    [i \in 1..Len(event_type) |->
        IF event_type[i] = "." THEN "_" ELSE event_type[i]]

\* The _handle_ methods the class defines, by the name after the prefix.
HandlerNames ==
    { << "chat", "_", "created" >>,
      << "chat", "_", "updated" >>,
      << "conversation", "_", "chat", "_", "created" >>,
      << "conversation", "_", "chat", "_", "in", "_", "progress" >>,
      << "conversation", "_", "audio", "_", "delta" >>,
      << "conversation", "_", "audio", "_", "sentence", "_", "start" >>,
      << "conversation", "_", "audio", "_", "completed" >>,
      << "conversation", "_", "message", "_", "delta" >>,
      << "conversation", "_", "message", "_", "completed" >>,
      << "conversation", "_", "chat", "_", "completed" >>,
      << "conversation", "_", "chat", "_", "failed" >>,
      << "conversation", "_", "chat", "_", "canceled" >>,
      << "error" >>,
      << "input", "_", "audio", "_", "buffer", "_", "completed" >>,
      << "input", "_", "audio", "_", "buffer", "_", "cleared" >>,
      << "input", "_", "audio", "_", "buffer", "_", "speech", "_", "started" >>,
      << "input", "_", "audio", "_", "buffer", "_", "speech", "_", "stopped" >>,
      << "conversation", "_", "audio", "_", "transcript", "_", "update" >>,
      << "conversation", "_", "audio", "_", "transcript", "_", "completed" >>,
      << "conversation", "_", "cleared" >>,
      << "conversation", "_", "chat", "_", "requires", "_", "action" >> }

H_chat_created ==
    << "chat", "_", "created" >>

H_chat_updated ==
    << "chat", "_", "updated" >>

H_conversation_chat_created ==
    << "conversation", "_", "chat", "_", "created" >>

H_conversation_chat_in_progress ==
    << "conversation", "_", "chat", "_", "in", "_", "progress" >>

H_conversation_audio_delta ==
    << "conversation", "_", "audio", "_", "delta" >>

T_conversation_audio_delta ==
    << "conversation", ".", "audio", ".", "delta" >>

H_conversation_audio_completed ==
    << "conversation", "_", "audio", "_", "completed" >>

H_conversation_chat_completed ==
    << "conversation", "_", "chat", "_", "completed" >>

H_conversation_chat_failed ==
    << "conversation", "_", "chat", "_", "failed" >>

T_conversation_chat_failed ==
    << "conversation", ".", "chat", ".", "failed" >>

H_conversation_chat_canceled ==
    << "conversation", "_", "chat", "_", "canceled" >>

H_input_audio_buffer_speech_started ==
    << "input", "_", "audio", "_", "buffer", "_", "speech", "_", "started" >>

H_input_audio_buffer_speech_stopped ==
    << "input", "_", "audio", "_", "buffer", "_", "speech", "_", "stopped" >>

H_conversation_audio_transcript_completed ==
    << "conversation", "_", "audio", "_", "transcript", "_", "completed" >>

T_conversation_audio_transcript_completed ==
    << "conversation", ".", "audio", "_", "transcript", ".", "completed" >>

H_conversation_chat_requires_action ==
    << "conversation", "_", "chat", "_", "requires", "_", "action" >>

T_conversation_chat_requires_action ==
    << "conversation", ".", "chat", ".", "requires", "_", "action" >>

\* Event types the class has no handler for: a type of a later protocol
\* version, and the default taken when a message names no type.
UnknownTypes ==
    { << "conversation", ".", "chat", ".", "paused" >>, << "unknown" >> }

\* A type spelled with an underscore where the protocol has a dot.
AliasTypes == { << "conversation", "_", "chat", ".", "failed" >> }

\* The emotion tags and the texts of a transcript: no text, and a text
\* with a keyword.
MessageTags == { NoEmotion, "happy", "sad", "angry", "surprised", "neutral" }

MessageTexts ==
    { <<>>,
      << 23545, 19981, 36215 >> }

\* A message: json is FALSE for a text json.loads rejects; the other
\* fields are the parts of the event the handlers read.
Msg(event_type) ==
    [json |-> TRUE, event_type |-> event_type, cid |-> None,
     payload |-> <<>>, detail |-> "", tag |-> NoEmotion, txt |-> <<>>]

Malformed == [Msg(<<>>) EXCEPT !.json = FALSE]

Messages(c) ==
    { Malformed }
    \cup { Msg(t) : t \in UnknownTypes }
    \cup { Msg(<< "chat", ".", "created" >>), Msg(<< "conversation", ".", "chat", ".", "created" >>),
           Msg(<< "conversation", ".", "chat", ".", "in", "_", "progress" >>),
           Msg(<< "conversation", ".", "audio", ".", "completed" >>),
           Msg(<< "conversation", ".", "chat", ".", "completed" >>),
           Msg(<< "conversation", ".", "chat", ".", "canceled" >>),
           Msg(<< "input", "_", "audio", "_", "buffer", ".", "speech", "_", "started" >>),
           Msg(<< "input", "_", "audio", "_", "buffer", ".", "speech", "_", "stopped" >>),
           Msg(T_conversation_chat_requires_action) }
    \cup { [Msg(<< "chat", ".", "updated" >>) EXCEPT !.cid = cid] :
             cid \in ConversationIds(c) }
    \cup { [Msg(T_conversation_audio_delta) EXCEPT !.payload = p] :
             p \in Payloads }
    \cup { [Msg(t) EXCEPT !.detail = d] :
             t \in { T_conversation_chat_failed } \cup AliasTypes,
             d \in Details }
    \cup { [Msg(T_conversation_audio_transcript_completed)
              EXCEPT !.tag = tag, !.txt = txt] :
             tag \in MessageTags, txt \in MessageTexts }

on_ws_message(c, msg) ==
    \/ ~msg.json /\ parse_failed(c)
    \/ /\ msg.json
       /\ \E name \in { handler_name(msg.event_type) } :
          \/ name = H_chat_created /\ handle_chat_created(c)
          \/ /\ name = H_chat_updated
             /\ handle_chat_updated(c, msg.cid)
          \/ /\ name = H_conversation_chat_created
             /\ handle_conversation_chat_created(c)
          \/ /\ name = H_conversation_chat_in_progress
             /\ handle_conversation_chat_in_progress(c)
          \/ /\ name = H_conversation_audio_delta
             /\ handle_conversation_audio_delta(c, msg.payload)
          \/ /\ name = H_conversation_audio_completed
             /\ handle_conversation_audio_completed(c)
          \/ /\ name = H_conversation_chat_completed
             /\ handle_conversation_chat_completed(c)
          \/ /\ name = H_conversation_chat_failed
             /\ chat_failed(c, msg.detail)
          \/ /\ name = H_conversation_chat_canceled
             /\ handle_conversation_chat_canceled(c)
          \/ /\ name = H_input_audio_buffer_speech_started
             /\ handle_input_audio_buffer_speech_started(c)
          \/ /\ name = H_input_audio_buffer_speech_stopped
             /\ handle_input_audio_buffer_speech_stopped(c)
          \/ /\ name = H_conversation_audio_transcript_completed
             /\ transcript_completed(c, msg.tag, msg.txt)
          \/ /\ name = H_conversation_chat_requires_action
             /\ handle_conversation_chat_requires_action(c)
          \/ name \notin HandlerNames /\ unhandled_event(c)

\* A ready session after the user has been heard, of a caller that never
\* started playback, the callbacks observed.
InitMessages ==
    /\ ws = 1
    /\ conn = [c \in Conns |-> IF c = 1 THEN "open" ELSE "unused"]
    /\ is_connected = TRUE
    /\ is_configured = TRUE
    /\ conversation_id = 1
    /\ current_chat_id = None
    /\ is_user_speaking = FALSE
    /\ is_ai_speaking = FALSE
    /\ is_processing = FALSE
    /\ current_user_emotion = NoEmotion
    /\ is_ready = TRUE
    /\ srvTurn = None
    /\ srvConn = None
    /\ nTurns = 0
    /\ phase = "running"
    /\ lastCall = "connect"
    /\ outbox = <<>>
    /\ emitted = <<>>
    /\ voiced = {}
    /\ requested = [c \in Conns |-> FALSE]
    /\ surfaced = [c \in Conns |-> FALSE]
    /\ acked = [c \in Conns |-> c = 1]
    /\ greeted = [c \in Conns |-> c = 1]
    /\ unacked = [c \in Conns |-> 0]
    /\ heard = [c \in Conns |-> c = 1]
    /\ created = 1
    /\ interruptedTurn = None
    /\ staleWritten = 0
    /\ utterance = <<>>
    /\ detected = NoEmotion
    /\ tracing = TRUE
    /\ monitor = NewMonitor(3)
    /\ rx = "unobserved"
    /\ InitDevice
    /\ InitAudioCaptureOnly
    /\ mic = <<>>

Receive ==
    \E c \in Conns : \E msg \in Messages(c) :
        on_ws_message(c, msg) /\ UNCHANGED tripVars

NextMessages == Receive

SpecMessages == InitMessages /\ [][NextMessages]_vars

(***************************************************************************)
(* _detect_emotion_from_text on its own: a text is chosen, then the        *)
(* function is applied to it.                                              *)
(***************************************************************************)
\* haha, HAHA, a Chinese apology, an exclamation that is both a happy and a
\* surprised keyword, three full-width exclamation marks, wow, ok, a word
\* of praise, sorry, an ellipsis, "?!", and a word of annoyance.
Words ==
    { << 104, 97, 104, 97 >>, << 72, 65, 72, 65 >>,
      << 23545, 19981, 36215 >>, << 21703 >>,
      << 65281, 65281, 65281 >>, << 119, 111, 119 >>, << 111, 107 >>,
      << 30495, 26834 >>, << 115, 111, 114, 114, 121 >>,
      << 46, 46, 46 >>, << 63, 33 >>, << 28902 >> }

\* The texts of at most n words.
RECURSIVE TextsOf(_)
TextsOf(n) ==
    IF n = 0 THEN { <<>> }
    ELSE TextsOf(n - 1)
           \cup { t \o w : t \in TextsOf(n - 1), w \in Words }

Texts == TextsOf(MaxWords)

\* The function has not returned yet.
Pending == "pending"

InitEmotion ==
    /\ InitClient
    /\ InitDevice
    /\ InitAudioCaptureOnly
    /\ mic = <<>>
    /\ tracing = FALSE
    /\ monitor = NewMonitor(3)
    /\ rx = "unobserved"
    /\ utterance \in Texts
    /\ detected = Pending

Detect ==
    /\ detected = Pending
    /\ detected' = detect_emotion_from_text(utterance)
    /\ UNCHANGED <<ws, conn, is_connected, is_configured, conversation_id,
                   current_chat_id, is_user_speaking, is_ai_speaking,
                   is_processing, current_user_emotion, is_ready, is_playing,
                   output_stream, audio_queue, pb, is_capturing,
                   input_stream, written, flushed, lost, nextId, srvTurn,
                   srvConn, nTurns, phase, lastCall, outbox, requested,
                   surfaced, acked, greeted, unacked, heard, created,
                   interruptedTurn, staleWritten, mic, wire, captured,
                   emitted, tracing, voiced, rx, utterance, cap, pa, refused,
                   tx, dc, monitor, clearing>>

NextEmotion == Detect

SpecEmotion == InitEmotion /\ [][NextEmotion]_vars

(***************************************************************************)
(* The AudioHandler on its own: a caller starts, stops and flushes the two *)
(* pipelines while the capture threads, the drain threads and a thread     *)
(* that calls play_audio run.  A call of the caller is one step; a thread  *)
(* takes one step per access to shared state.                              *)
(***************************************************************************)
\* AudioHandler.__init__: nothing is started.
InitAudioHandler ==
    /\ is_playing = FALSE
    /\ output_stream = FALSE
    /\ audio_queue = <<>>
    /\ pb = [t \in Threads |-> [pc |-> "none", held |-> NoFrame]]
    /\ is_capturing = FALSE
    /\ input_stream = FALSE
    /\ cap = NoCaptureThread

InitAudio ==
    /\ InitClient
    /\ InitNoText
    /\ InitDevice
    /\ InitAudioHandler
    /\ mic = <<>>
    /\ tracing = FALSE
    /\ monitor = NewMonitor(3)
    /\ rx = "unobserved"

\* A thread object that was never started or has returned.
FreeCapThreads == { t \in CapThreads : cap[t] \in { "none", "exit" } }

FreeThreads == { t \in Threads : pb[t].pc \in { "none", "exit" } }

\* start_capture: "Already capturing" when the flag is set; else the device
\* is opened, the flag set and a thread started.
StartCapture ==
    /\ lastCall' = "start_capture"
    /\ IF is_capturing
       THEN UNCHANGED <<is_capturing, input_stream, cap>>
       ELSE /\ FreeCapThreads # {}
            /\ input_stream' = TRUE
            /\ is_capturing' = TRUE
            /\ \E t \in FreeCapThreads :
                  /\ \A u \in FreeCapThreads : t <= u
                  /\ cap' = [cap EXCEPT ![t] = "check"]
    /\ UNCHANGED <<ws, conn, is_connected, is_configured, conversation_id,
                   current_chat_id, is_user_speaking, is_ai_speaking,
                   is_processing, current_user_emotion, is_ready, is_playing,
                   output_stream, audio_queue, pb, written, flushed, lost,
                   nextId, srvTurn, srvConn, nTurns, phase, outbox,
                   requested, surfaced, acked, greeted, unacked, heard,
                   created, interruptedTurn, staleWritten, mic, wire,
                   captured, emitted, tracing, voiced, rx, utterance,
                   detected, pa, refused, tx, dc, monitor, clearing>>

\* stop_capture: the flag is reset and the device closed; the thread is not
\* joined.  A thread blocked in read() is now reading a closed stream.
StopCapture ==
    /\ lastCall' = "stop_capture"
    /\ is_capturing' = FALSE
    /\ input_stream' = FALSE
    /\ cap' = [t \in CapThreads |->
                 IF cap[t] = "read" THEN "readclosed" ELSE cap[t]]
    /\ UNCHANGED <<ws, conn, is_connected, is_configured, conversation_id,
                   current_chat_id, is_user_speaking, is_ai_speaking,
                   is_processing, current_user_emotion, is_ready, is_playing,
                   output_stream, audio_queue, pb, written, flushed, lost,
                   nextId, srvTurn, srvConn, nTurns, phase, outbox,
                   requested, surfaced, acked, greeted, unacked, heard,
                   created, interruptedTurn, staleWritten, mic, wire,
                   captured, emitted, tracing, voiced, rx, utterance,
                   detected, pa, refused, tx, dc, monitor, clearing>>

\* while self.is_capturing and self.input_stream, then the call of
\* self.input_stream.read
CaptureCheck(t) ==
    /\ cap[t] = "check"
    /\ cap' = [cap EXCEPT ![t] = IF is_capturing /\ input_stream
                                 THEN "read" ELSE "exit"]
    /\ UNCHANGED <<ws, conn, is_connected, is_configured, conversation_id,
                   current_chat_id, is_user_speaking, is_ai_speaking,
                   is_processing, current_user_emotion, is_ready, is_playing,
                   output_stream, audio_queue, pb, is_capturing,
                   input_stream, written, flushed, lost, nextId, srvTurn,
                   srvConn, nTurns, phase, lastCall, outbox, requested,
                   surfaced, acked, greeted, unacked, heard, created,
                   interruptedTurn, staleWritten, mic, wire, captured,
                   emitted, tracing, voiced, rx, utterance, detected, pa,
                   refused, tx, dc, monitor, clearing>>

\* read() returns a frame
CaptureRead(t) ==
    /\ cap[t] = "read"
    /\ cap' = [cap EXCEPT ![t] = "call"]
    /\ UNCHANGED <<ws, conn, is_connected, is_configured, conversation_id,
                   current_chat_id, is_user_speaking, is_ai_speaking,
                   is_processing, current_user_emotion, is_ready, is_playing,
                   output_stream, audio_queue, pb, is_capturing,
                   input_stream, written, flushed, lost, nextId, srvTurn,
                   srvConn, nTurns, phase, lastCall, outbox, requested,
                   surfaced, acked, greeted, unacked, heard, created,
                   interruptedTurn, staleWritten, mic, wire, captured,
                   emitted, tracing, voiced, rx, utterance, detected, pa,
                   refused, tx, dc, monitor, clearing>>

\* read() raises on a device error: the error is logged and the loop left;
\* is_capturing and input_stream are not touched.
CaptureReadError(t) ==
    /\ cap[t] = "read"
    /\ cap' = [cap EXCEPT ![t] = "exit"]
    /\ UNCHANGED <<ws, conn, is_connected, is_configured, conversation_id,
                   current_chat_id, is_user_speaking, is_ai_speaking,
                   is_processing, current_user_emotion, is_ready, is_playing,
                   output_stream, audio_queue, pb, is_capturing,
                   input_stream, written, flushed, lost, nextId, srvTurn,
                   srvConn, nTurns, phase, lastCall, outbox, requested,
                   surfaced, acked, greeted, unacked, heard, created,
                   interruptedTurn, staleWritten, mic, wire, captured,
                   emitted, tracing, voiced, rx, utterance, detected, pa,
                   refused, tx, dc, monitor, clearing>>

\* read() on a stream closed under it: it raises, or it returns what the
\* device had delivered.
CaptureReadClosed(t) ==
    /\ cap[t] = "readclosed"
    /\ \E pc \in { "exit", "call" } : cap' = [cap EXCEPT ![t] = pc]
    /\ UNCHANGED <<ws, conn, is_connected, is_configured, conversation_id,
                   current_chat_id, is_user_speaking, is_ai_speaking,
                   is_processing, current_user_emotion, is_ready, is_playing,
                   output_stream, audio_queue, pb, is_capturing,
                   input_stream, written, flushed, lost, nextId, srvTurn,
                   srvConn, nTurns, phase, lastCall, outbox, requested,
                   surfaced, acked, greeted, unacked, heard, created,
                   interruptedTurn, staleWritten, mic, wire, captured,
                   emitted, tracing, voiced, rx, utterance, detected, pa,
                   refused, tx, dc, monitor, clearing>>

\* if self._on_audio_chunk and data: self._on_audio_chunk(data)
CaptureCall(t) ==
    /\ cap[t] = "call"
    /\ cap' = [cap EXCEPT ![t] = "check"]
    /\ \E data \in MicFrames : Step(on_audio_chunk(data))
    /\ UNCHANGED <<ws, conn, is_connected, is_configured, conversation_id,
                   current_chat_id, is_user_speaking, is_ai_speaking,
                   is_processing, current_user_emotion, is_ready, is_playing,
                   output_stream, audio_queue, pb, is_capturing,
                   input_stream, written, flushed, lost, nextId, srvTurn,
                   srvConn, nTurns, phase, lastCall, requested, surfaced,
                   acked, greeted, created, interruptedTurn, staleWritten,
                   mic, wire, captured, tracing, voiced, utterance, detected,
                   pa, refused, tx, dc, monitor, clearing>>

\* start_playback: "Already playing" when the flag is set; else the device
\* is opened, the flag set and a drain thread started.  The queue is kept.
StartPlayback ==
    /\ lastCall' = "start_playback"
    /\ IF is_playing
       THEN UNCHANGED <<is_playing, output_stream, pb>>
       ELSE /\ FreeThreads # {}
            /\ output_stream' = TRUE
            /\ is_playing' = TRUE
            /\ \E t \in FreeThreads :
                  /\ \A u \in FreeThreads : t <= u
                  /\ PlaybackStep(t, "check", NoFrame)
    /\ UNCHANGED <<ws, conn, is_connected, is_configured, conversation_id,
                   current_chat_id, is_user_speaking, is_ai_speaking,
                   is_processing, current_user_emotion, is_ready,
                   audio_queue, is_capturing, input_stream, written, flushed,
                   lost, nextId, srvTurn, srvConn, nTurns, phase, outbox,
                   requested, surfaced, acked, greeted, unacked, heard,
                   created, interruptedTurn, staleWritten, mic, wire,
                   captured, emitted, tracing, voiced, rx, utterance,
                   detected, cap, pa, refused, tx, dc, monitor, clearing>>

\* stop_playback that leaves the queue as it finds it.
StopPlaybackKeepQueue ==
    /\ lastCall' = "stop_playback"
    /\ is_playing' = FALSE
    /\ output_stream' = FALSE
    /\ UNCHANGED <<ws, conn, is_connected, is_configured, conversation_id,
                   current_chat_id, is_user_speaking, is_ai_speaking,
                   is_processing, current_user_emotion, is_ready,
                   audio_queue, pb, is_capturing, input_stream, written,
                   flushed, lost, nextId, srvTurn, srvConn, nTurns, phase,
                   outbox, requested, surfaced, acked, greeted, unacked,
                   heard, created, interruptedTurn, staleWritten, mic, wire,
                   captured, emitted, tracing, voiced, rx, utterance,
                   detected, cap, pa, refused, tx, dc, monitor, clearing>>

\* stop_playback: flag, clear_playback_queue, device closed; no join.
StopPlayback ==
    /\ lastCall' = "stop_playback"
    /\ is_playing' = FALSE
    /\ audio_queue' = clear_playback_queue(audio_queue)
    /\ flushed' = flushed \cup QueueIds(audio_queue)
    /\ output_stream' = FALSE
    /\ UNCHANGED <<ws, conn, is_connected, is_configured, conversation_id,
                   current_chat_id, is_user_speaking, is_ai_speaking,
                   is_processing, current_user_emotion, is_ready, pb,
                   is_capturing, input_stream, written, lost, nextId,
                   srvTurn, srvConn, nTurns, phase, outbox, requested,
                   surfaced, acked, greeted, unacked, heard, created,
                   interruptedTurn, staleWritten, mic, wire, captured,
                   emitted, tracing, voiced, rx, utterance, detected, cap,
                   pa, refused, tx, dc, monitor, clearing>>

\* clear_playback_queue called by the caller
ClearPlaybackQueue ==
    /\ lastCall' = "clear_playback_queue"
    /\ audio_queue' = clear_playback_queue(audio_queue)
    /\ flushed' = flushed \cup QueueIds(audio_queue)
    /\ UNCHANGED <<ws, conn, is_connected, is_configured, conversation_id,
                   current_chat_id, is_user_speaking, is_ai_speaking,
                   is_processing, current_user_emotion, is_ready, is_playing,
                   output_stream, pb, is_capturing, input_stream, written,
                   lost, nextId, srvTurn, srvConn, nTurns, phase, outbox,
                   requested, surfaced, acked, greeted, unacked, heard,
                   created, interruptedTurn, staleWritten, mic, wire,
                   captured, emitted, tracing, voiced, rx, utterance,
                   detected, cap, pa, refused, tx, dc, monitor, clearing>>

\* The frames given to play_audio.
AudioFrames == { <<0, 0>> }

\* play_audio that queues whatever the flag says.
PlayAudioCheckAlways ==
    /\ pa.pc = "idle"
    /\ nextId <= MaxFrames
    /\ \E data \in AudioFrames :
          pa' = [pc |-> "put",
                 frame |-> [id |-> nextId, data |-> data, turn |-> None]]
    /\ refused' = IF is_playing THEN refused ELSE refused \cup {nextId}
    /\ nextId' = nextId + 1
    /\ UNCHANGED <<ws, conn, is_connected, is_configured, conversation_id,
                   current_chat_id, is_user_speaking, is_ai_speaking,
                   is_processing, current_user_emotion, is_ready, is_playing,
                   output_stream, audio_queue, pb, is_capturing,
                   input_stream, written, flushed, lost, srvTurn, srvConn,
                   nTurns, phase, lastCall, outbox, requested, surfaced,
                   acked, greeted, unacked, heard, created, interruptedTurn,
                   staleWritten, mic, wire, captured, emitted, tracing,
                   voiced, rx, utterance, detected, cap, tx, dc, monitor,
                   clearing>>

\* play_audio, first step: if self.is_playing
PlayAudioCheck ==
    /\ pa.pc = "idle"
    /\ nextId <= MaxFrames
    /\ \E data \in AudioFrames :
          pa' = IF is_playing
                THEN [pc |-> "put",
                      frame |-> [id |-> nextId, data |-> data, turn |-> None]]
                ELSE NoCall
    /\ refused' = IF is_playing THEN refused ELSE refused \cup {nextId}
    /\ nextId' = nextId + 1
    /\ UNCHANGED <<ws, conn, is_connected, is_configured, conversation_id,
                   current_chat_id, is_user_speaking, is_ai_speaking,
                   is_processing, current_user_emotion, is_ready, is_playing,
                   output_stream, audio_queue, pb, is_capturing,
                   input_stream, written, flushed, lost, srvTurn, srvConn,
                   nTurns, phase, lastCall, outbox, requested, surfaced,
                   acked, greeted, unacked, heard, created, interruptedTurn,
                   staleWritten, mic, wire, captured, emitted, tracing,
                   voiced, rx, utterance, detected, cap, tx, dc, monitor,
                   clearing>>

\* play_audio, second step: self._audio_queue.put(audio_data)
PlayAudioPut ==
    /\ pa.pc = "put"
    /\ audio_queue' = Append(audio_queue, pa.frame)
    /\ pa' = NoCall
    /\ UNCHANGED <<ws, conn, is_connected, is_configured, conversation_id,
                   current_chat_id, is_user_speaking, is_ai_speaking,
                   is_processing, current_user_emotion, is_ready, is_playing,
                   output_stream, pb, is_capturing, input_stream, written,
                   flushed, lost, nextId, srvTurn, srvConn, nTurns, phase,
                   lastCall, outbox, requested, surfaced, acked, greeted,
                   unacked, heard, created, interruptedTurn, staleWritten,
                   mic, wire, captured, emitted, tracing, voiced, rx,
                   utterance, detected, cap, refused, tx, dc, monitor,
                   clearing>>

Caller ==
    \/ StartCapture
    \/ StopCapture
    \/ StartPlayback
    \/ StopPlayback
    \/ ClearPlaybackQueue

Capture ==
    \E t \in CapThreads :
        \/ CaptureCheck(t)
        \/ CaptureRead(t)
        \/ CaptureReadError(t)
        \/ CaptureReadClosed(t)
        \/ CaptureCall(t)

Producer ==
    \/ PlayAudioCheck
    \/ PlayAudioPut

NextAudio ==
    \/ Caller
    \/ Capture
    \/ Producer
    \/ Drain

SpecAudio == InitAudio /\ [][NextAudio]_vars

(***************************************************************************)
(* The handshake: the client under any caller, with the callbacks of each  *)
(* step recorded, from construction to the ready session.                  *)
(***************************************************************************)
InitHandshake ==
    /\ InitClient
    /\ InitNoText
    /\ InitDevice
    /\ InitAudioCaptureOnly
    /\ mic = <<>>
    /\ tracing = TRUE
    /\ monitor = NewMonitor(3)
    /\ rx = "unobserved"

Handshake ==
    \E c \in Conns :
        \/ handle_chat_created(c)
        \/ \E cid \in ConversationIds(c) : handle_chat_updated(c, cid)
        \/ chat_updated_without_data(c)

NextHandshake ==
    \/ Connect
    \/ Disconnect
    \/ Transport
    \/ Handshake
    \/ CaptureLoop

SpecHandshake == InitHandshake /\ [][NextHandshake]_vars

(***************************************************************************)
(* The client connected once, the receive thread observed: a handler calls *)
(* the presentation callbacks itself, and run_forever reads the next       *)
(* message when the handler has returned.  The caller feeds microphone     *)
(* frames and may disconnect.                                              *)
(***************************************************************************)
InitCallbacks ==
    /\ InitClient
    /\ InitNoText
    /\ InitDevice
    /\ InitAudioCaptureOnly
    /\ mic = <<>>
    /\ tracing = FALSE
    /\ monitor = NewMonitor(3)
    /\ rx = "idle"

\* The receive thread takes the next event of its transport.
ReceiveThread ==
    /\ rx = "idle"
    /\ Transport \/ Inbound

\* The callback the receive thread is in returns.
CallbackReturns ==
    /\ rx = "callback"
    /\ rx' = "idle"
    /\ UNCHANGED <<ws, conn, is_connected, is_configured, conversation_id,
                   current_chat_id, is_user_speaking, is_ai_speaking,
                   is_processing, current_user_emotion, is_ready, is_playing,
                   output_stream, audio_queue, pb, is_capturing,
                   input_stream, written, flushed, lost, nextId, srvTurn,
                   srvConn, nTurns, phase, lastCall, outbox, requested,
                   surfaced, acked, greeted, unacked, heard, created,
                   interruptedTurn, staleWritten, mic, wire, captured,
                   emitted, tracing, voiced, utterance, detected, cap, pa,
                   refused, tx, dc, monitor, clearing>>

NextCallbacks ==
    \/ RunConnect
    \/ Disconnect
    \/ ReceiveThread
    \/ CallbackReturns
    \/ CaptureLoop

SpecCallbacks == InitCallbacks /\ [][NextCallbacks]_vars

(***************************************************************************)
(* The assistant's turns: the events of a turn and of voice activity       *)
(* handled in a ready session, the callbacks of each step recorded and     *)
(* the turns that delivered audio remembered.                              *)
(***************************************************************************)
\* The texts of a sentence-boundary event: no text, and a text with a
\* keyword.
SentenceTexts == MessageTexts

TurnEvents ==
    \E c \in Conns :
        \/ handle_conversation_chat_created(c)
        \/ handle_conversation_chat_in_progress(c)
        \/ \E payload \in Payloads : audio_delta_of_turn(c, payload)
        \/ \E txt \in SentenceTexts : sentence_start(c, txt)
        \/ handle_conversation_audio_completed(c)
        \/ handle_conversation_chat_completed(c)
        \/ handle_conversation_chat_failed(c)
        \/ handle_conversation_chat_canceled(c)
        \/ handle_input_audio_buffer_speech_started(c)
        \/ handle_input_audio_buffer_speech_stopped(c)

NextTurn == TurnEvents

SpecTurn == InitMessages /\ [][NextTurn]_vars

(***************************************************************************)
(* disconnect() against a send in flight: the capture thread's send_audio  *)
(* and the caller's disconnect(), one step per access to the shared        *)
(* fields and to the transport.                                            *)
(***************************************************************************)
\* _on_audio_chunk, send_audio and _send_event up to the call of ws.send:
\* the tests of is_ready, is_connected, is_configured and self.ws.  A frame
\* that fails a test is dropped.
SendCheck ==
    /\ tx.pc # "send"
    /\ is_capturing /\ input_stream
    /\ \E data \in MicFrames :
          tx' = IF is_ready /\ is_connected /\ is_configured /\ ws # None
                THEN [pc |-> "send", data |-> B64Encode(data)]
                ELSE NoSend
    /\ Step(<<>>)
    /\ UNCHANGED <<ws, conn, is_connected, is_configured, conversation_id,
                   current_chat_id, is_user_speaking, is_ai_speaking,
                   is_processing, current_user_emotion, is_ready, is_playing,
                   output_stream, audio_queue, pb, is_capturing,
                   input_stream, written, flushed, lost, nextId, srvTurn,
                   srvConn, nTurns, phase, lastCall, requested, surfaced,
                   acked, greeted, created, interruptedTurn, staleWritten,
                   mic, wire, captured, tracing, voiced, utterance, detected,
                   cap, pa, refused, dc, monitor, clearing>>

\* A transport that takes the message whatever its state.
SendTransmitAnyway ==
    /\ tx.pc = "send"
    /\ tx' = [pc |-> "sent", data |-> <<>>]
    /\ Step(<< Message("input_audio_buffer.append", "", tx.data) >>)
    /\ UNCHANGED <<ws, conn, is_connected, is_configured, conversation_id,
                   current_chat_id, is_user_speaking, is_ai_speaking,
                   is_processing, current_user_emotion, is_ready, is_playing,
                   output_stream, audio_queue, pb, is_capturing,
                   input_stream, written, flushed, lost, nextId, srvTurn,
                   srvConn, nTurns, phase, lastCall, requested, surfaced,
                   acked, greeted, created, interruptedTurn, staleWritten,
                   mic, wire, captured, tracing, voiced, utterance, detected,
                   cap, pa, refused, dc, monitor, clearing>>

\* self.ws.send(json.dumps(event)) inside try/except: the message goes out
\* on the transport self.ws names now when that transport is open; on any
\* other transport send raises, which is logged, and the call returns.
SendTransmit ==
    /\ tx.pc = "send"
    /\ \E open \in { ws # None /\ conn[ws] = "open" } :
          /\ tx' = [pc |-> IF open THEN "sent" ELSE "failed", data |-> <<>>]
          /\ Step(IF open
                  THEN << Message("input_audio_buffer.append", "", tx.data) >>
                  ELSE <<>>)
    /\ UNCHANGED <<ws, conn, is_connected, is_configured, conversation_id,
                   current_chat_id, is_user_speaking, is_ai_speaking,
                   is_processing, current_user_emotion, is_ready, is_playing,
                   output_stream, audio_queue, pb, is_capturing,
                   input_stream, written, flushed, lost, nextId, srvTurn,
                   srvConn, nTurns, phase, lastCall, requested, surfaced,
                   acked, greeted, created, interruptedTurn, staleWritten,
                   mic, wire, captured, tracing, voiced, utterance, detected,
                   cap, pa, refused, dc, monitor, clearing>>

\* disconnect(), first statement: if self.ws: self.ws.close()
DisconnectClose ==
    /\ ~dc
    /\ dc' = TRUE
    /\ conn' = IF ws # None /\ conn[ws] \in {"connecting", "open"}
               THEN [conn EXCEPT ![ws] = "closing"]
               ELSE conn
    /\ requested' = IF ws # None THEN [requested EXCEPT ![ws] = TRUE]
                    ELSE requested
    /\ Step(<<>>)
    /\ UNCHANGED <<ws, is_connected, is_configured, conversation_id,
                   current_chat_id, is_user_speaking, is_ai_speaking,
                   is_processing, current_user_emotion, is_ready, is_playing,
                   output_stream, audio_queue, pb, is_capturing,
                   input_stream, written, flushed, lost, nextId, srvTurn,
                   srvConn, nTurns, phase, lastCall, surfaced, acked,
                   greeted, created, interruptedTurn, staleWritten, mic,
                   wire, captured, tracing, voiced, utterance, detected, cap,
                   pa, refused, tx, monitor, clearing>>

\* disconnect(), the two flags; the call returns.
DisconnectFlags ==
    /\ dc
    /\ dc' = FALSE
    /\ is_connected' = FALSE
    /\ is_configured' = FALSE
    /\ lastCall' = "disconnect"
    /\ Step(<<>>)
    /\ UNCHANGED <<ws, conn, conversation_id, current_chat_id,
                   is_user_speaking, is_ai_speaking, is_processing,
                   current_user_emotion, is_ready, is_playing, output_stream,
                   audio_queue, pb, is_capturing, input_stream, written,
                   flushed, lost, nextId, srvTurn, srvConn, nTurns, phase,
                   requested, surfaced, acked, greeted, created,
                   interruptedTurn, staleWritten, mic, wire, captured,
                   tracing, voiced, utterance, detected, cap, pa, refused,
                   tx, monitor, clearing>>

\* connect(), by the thread that calls disconnect().
ConnectAgain == ~dc /\ Connect

NextSend ==
    \/ ConnectAgain
    \/ DisconnectClose
    \/ DisconnectFlags
    \/ Transport
    \/ Handshake
    \/ SendCheck
    \/ SendTransmit

SpecSend == InitClientOnly /\ [][NextSend]_vars

(***************************************************************************)
(* A level monitor given frame after frame.                                *)
(***************************************************************************)
\* The smoothing of main.py's two monitors, 0.4 and 0.3, which is also the
\* default, in tenths.
Smoothings == { 3, 4 }

\* The frames: none, silence, full scale (32767 and -32768), the reference
\* and one above it, and frames below the reference, of one and two
\* samples; and two byte strings that end inside a sample.
LevelFrames ==
    { <<>>, <<0, 0>>, <<0, 0, 0, 0>>,
      <<255, 127>>, <<0, 128>>, <<255, 127, 255, 127>>,
      <<0, 64>>, <<1, 64>>,
      <<0, 32>>, <<0, 224, 0, 32>>, <<0, 8, 0, 56>>,
      <<0>>, <<0, 0, 0>> }

InitLevel ==
    /\ InitClient
    /\ InitNoText
    /\ InitDevice
    /\ InitAudioHandler
    /\ mic = <<>>
    /\ tracing = FALSE
    /\ rx = "unobserved"
    /\ \E smoothing \in Smoothings : monitor = NewMonitor(smoothing)

\* AudioLevelMonitor.update: struct.unpack raises on a byte string that is
\* not a whole number of samples, before the level is touched; else the
\* smoothed level is stored and returned.
update(audio_data) ==
    /\ monitor.updates < MaxUpdates
    /\ monitor' =
         IF Len(audio_data) % 2 # 0
         THEN [monitor EXCEPT !.updates = @ + 1, !.audio_data = audio_data,
                              !.raised = TRUE]
         ELSE [smoothing |-> monitor.smoothing,
               current_level |-> smooth(monitor.smoothing,
                                        monitor.current_level,
                                        normalize(unpack(audio_data))),
               normalized |-> normalize(unpack(audio_data)),
               updates |-> monitor.updates + 1,
               audio_data |-> audio_data,
               raised |-> FALSE]
    /\ UNCHANGED <<ws, conn, is_connected, is_configured, conversation_id,
                   current_chat_id, is_user_speaking, is_ai_speaking,
                   is_processing, current_user_emotion, is_ready, is_playing,
                   output_stream, audio_queue, pb, is_capturing,
                   input_stream, written, flushed, lost, nextId, srvTurn,
                   srvConn, nTurns, phase, lastCall, outbox, requested,
                   surfaced, acked, greeted, unacked, heard, created,
                   interruptedTurn, staleWritten, mic, wire, captured,
                   emitted, tracing, voiced, rx, utterance, detected, cap,
                   pa, refused, tx, dc, clearing>>

NextLevel == \E audio_data \in LevelFrames : update(audio_data)

SpecLevel == InitLevel /\ [][NextLevel]_vars

(***************************************************************************)
(* Voice activity against playback: a ready session with the output        *)
(* device open and one drain thread.  _handle_input_audio_buffer_speech_   *)
(* started is taken in the two steps it makes, the drain thread running    *)
(* between them: cancel_response first, the state-change callback after.   *)
(***************************************************************************)
InitBargeIn ==
    /\ ws = 1
    /\ conn = [c \in Conns |-> IF c = 1 THEN "open" ELSE "unused"]
    /\ is_connected = TRUE
    /\ is_configured = TRUE
    /\ conversation_id = 1
    /\ current_chat_id = None
    /\ is_user_speaking = FALSE
    /\ is_ai_speaking = FALSE
    /\ is_processing = FALSE
    /\ current_user_emotion = NoEmotion
    /\ is_ready = TRUE
    /\ srvTurn = None
    /\ srvConn = None
    /\ nTurns = 0
    /\ phase = "running"
    /\ lastCall = "connect"
    /\ outbox = <<>>
    /\ emitted = <<>>
    /\ voiced = {}
    /\ requested = [c \in Conns |-> FALSE]
    /\ surfaced = [c \in Conns |-> FALSE]
    /\ acked = [c \in Conns |-> c = 1]
    /\ greeted = [c \in Conns |-> c = 1]
    /\ unacked = [c \in Conns |-> 0]
    /\ heard = [c \in Conns |-> c = 1]
    /\ created = 1
    /\ interruptedTurn = None
    /\ staleWritten = 0
    /\ utterance = <<>>
    /\ detected = NoEmotion
    /\ tracing = TRUE
    /\ monitor = NewMonitor(3)
    /\ rx = "idle"
    /\ InitDevice
    /\ InitAudioStarted
    /\ mic = <<>>

\* _handle_input_audio_buffer_speech_started up to the callback: the flag,
\* and cancel_response when the assistant is speaking.  The receive thread
\* is then in the handler, the cancel sent or not.
speech_started_interrupt(c) ==
    /\ rx = "idle"
    /\ conn[c] = "open"
    /\ heard[c]
    /\ is_user_speaking' = TRUE
    /\ is_ai_speaking' = FALSE
    /\ interruptedTurn' = IF is_ai_speaking THEN srvTurn ELSE interruptedTurn
    /\ staleWritten' = IF is_ai_speaking THEN 0 ELSE staleWritten
    /\ outbox' = IF is_ai_speaking THEN cancel_response ELSE <<>>
    /\ Received(IF is_ai_speaking THEN cancel_response ELSE <<>>)
    /\ emitted' = <<>>
    /\ rx' = IF is_ai_speaking THEN "cancelled" ELSE "started"
    /\ UNCHANGED <<ws, conn, is_connected, is_configured, conversation_id,
                   current_chat_id, is_processing, current_user_emotion,
                   is_ready, is_playing, output_stream, audio_queue, pb,
                   is_capturing, input_stream, written, flushed, lost,
                   nextId, srvTurn, srvConn, nTurns, phase, lastCall,
                   requested, surfaced, acked, greeted, created, mic, wire,
                   captured, tracing, voiced, utterance, detected, cap, pa,
                   refused, tx, dc, monitor, clearing>>

\* The rest of the handler: self._on_state_change("listening"), where
\* main.py clears the playback queue.
speech_started_listening ==
    /\ rx \in {"cancelled", "started"}
    /\ audio_queue' = on_state_change(audio_queue, "listening")
    /\ flushed' = flushed \cup
                    (QueueIds(audio_queue)
                     \ QueueIds(on_state_change(audio_queue, "listening")))
    /\ outbox' = <<>>
    /\ Received(<<>>)
    /\ emitted' = << StateChange("listening") >>
    /\ rx' = "idle"
    /\ UNCHANGED <<ws, conn, is_connected, is_configured, conversation_id,
                   current_chat_id, is_user_speaking, is_ai_speaking,
                   is_processing, current_user_emotion, is_ready, is_playing,
                   output_stream, pb, is_capturing, input_stream, written,
                   lost, nextId, srvTurn, srvConn, nTurns, phase, lastCall,
                   requested, surfaced, acked, greeted, created,
                   interruptedTurn, staleWritten, mic, wire, captured,
                   tracing, voiced, utterance, detected, cap, pa, refused,
                   tx, dc, monitor, clearing>>

\* The other events of a turn, each handled in one step when the receive
\* thread is free.
BargeInEvents ==
    /\ rx = "idle"
    /\ \E c \in Conns :
        \/ handle_conversation_chat_created(c)
        \/ \E payload \in Payloads : handle_conversation_audio_delta(c, payload)
        \/ handle_conversation_audio_completed(c)
        \/ handle_input_audio_buffer_speech_stopped(c)

SpeechStarted ==
    \/ \E c \in Conns : speech_started_interrupt(c)
    \/ speech_started_listening

NextBargeIn ==
    \/ BargeInEvents
    \/ SpeechStarted
    \/ CallbackReturns
    \/ Drain

SpecBargeIn == InitBargeIn /\ [][NextBargeIn]_vars

(***************************************************************************)
(* The user's emotion and the assistant's tone: a ready session receiving  *)
(* transcript-final and sentence-boundary events, the acknowledgments of   *)
(* the tone updates it sends, and the end of the transport.                *)
(***************************************************************************)
\* The emotion tags of a transcript-final event: none, the client's own
\* values, and "surprise", the remote service's value for a surprised
\* speaker (update_tts_emotion sends it under that name).
ToneTags == { NoEmotion, "happy", "surprised", "surprise" }

\* The texts: none, "ok" (no keyword), "wow" (a keyword of surprised).
ToneTexts == { <<>>, << 111, 107 >>, << 119, 111, 119 >> }

ToneEvents ==
    \E c \in Conns :
        \/ handle_conversation_chat_created(c)
        \/ handle_conversation_chat_completed(c)
        \/ \E tag \in ToneTags : \E txt \in ToneTexts :
               transcript_completed(c, tag, txt)
        \/ \E txt \in ToneTexts : sentence_start(c, txt)
        \/ \E cid \in ConversationIds(c) : handle_chat_updated(c, cid)

TransportEnds == \E c \in Conns : WsClose(c)

NextTone ==
    \/ ToneEvents
    \/ TransportEnds

SpecTone == InitMessages /\ [][NextTone]_vars

(***************************************************************************)
(* clear_playback_queue against the drain thread and play_audio: the       *)
(* devices started as main.py starts them, a thread that calls play_audio, *)
(* and a caller of clear_playback_queue whose loop takes one step per      *)
(* access to the queue.                                                    *)
(***************************************************************************)
\* clear_playback_queue is called: the frames queued at that moment.
ClearCall ==
    /\ clearing.pc = "idle"
    /\ clearing' = [pc |-> "empty", queued |-> QueueIds(audio_queue)]
    /\ UNCHANGED <<ws, conn, is_connected, is_configured, conversation_id,
                   current_chat_id, is_user_speaking, is_ai_speaking,
                   is_processing, current_user_emotion, is_ready, is_playing,
                   output_stream, audio_queue, pb, is_capturing,
                   input_stream, written, flushed, lost, nextId, srvTurn,
                   srvConn, nTurns, phase, lastCall, outbox, requested,
                   surfaced, acked, greeted, unacked, heard, created,
                   interruptedTurn, staleWritten, mic, wire, captured,
                   emitted, tracing, voiced, rx, utterance, detected, cap,
                   pa, refused, tx, dc, monitor>>

\* while not self._audio_queue.empty(): the loop is left, and the call
\* returns, when the queue is found empty.
ClearEmpty ==
    /\ clearing.pc = "empty"
    /\ clearing' = [clearing EXCEPT
                      !.pc = IF Len(audio_queue) = 0 THEN "idle" ELSE "get"]
    /\ UNCHANGED <<ws, conn, is_connected, is_configured, conversation_id,
                   current_chat_id, is_user_speaking, is_ai_speaking,
                   is_processing, current_user_emotion, is_ready, is_playing,
                   output_stream, audio_queue, pb, is_capturing,
                   input_stream, written, flushed, lost, nextId, srvTurn,
                   srvConn, nTurns, phase, lastCall, outbox, requested,
                   surfaced, acked, greeted, unacked, heard, created,
                   interruptedTurn, staleWritten, mic, wire, captured,
                   emitted, tracing, voiced, rx, utterance, detected, cap,
                   pa, refused, tx, dc, monitor>>

\* self._audio_queue.get_nowait(): a frame is taken and dropped; when the
\* drain thread emptied the queue first, queue.Empty ends the loop.
ClearGetNowait ==
    /\ clearing.pc = "get"
    /\ IF Len(audio_queue) = 0
       THEN /\ clearing' = [clearing EXCEPT !.pc = "idle"]
            /\ UNCHANGED <<audio_queue, flushed>>
       ELSE /\ clearing' = [clearing EXCEPT !.pc = "empty"]
            /\ audio_queue' = Tail(audio_queue)
            /\ flushed' = flushed \cup {Head(audio_queue).id}
    /\ UNCHANGED <<ws, conn, is_connected, is_configured, conversation_id,
                   current_chat_id, is_user_speaking, is_ai_speaking,
                   is_processing, current_user_emotion, is_ready, is_playing,
                   output_stream, pb, is_capturing, input_stream, written,
                   lost, nextId, srvTurn, srvConn, nTurns, phase, lastCall,
                   outbox, requested, surfaced, acked, greeted, unacked,
                   heard, created, interruptedTurn, staleWritten, mic, wire,
                   captured, emitted, tracing, voiced, rx, utterance,
                   detected, cap, pa, refused, tx, dc, monitor>>

Clear ==
    \/ ClearCall
    \/ ClearEmpty
    \/ ClearGetNowait

NextClear ==
    \/ Clear
    \/ Producer
    \/ Drain

SpecClear == Init /\ [][NextClear]_vars

(***************************************************************************)
(* Properties.                                                             *)
(***************************************************************************)
CancelMessage(c) ==
    [type |-> "conversation.chat.cancel", conn |-> c, arg |-> "", data |-> <<>>]

IsAppend(m) == m.type = "input_audio_buffer.append"

\* C1: when speech-started is handled while is_ai_speaking is true, the step
\* transmits exactly one conversation.chat.cancel and leaves the playback
\* queue empty; the handler runs on the thread that calls play_audio, so no
\* frame is accepted before it is done.
C1_BargeInCancelsAndFlushes ==
    [][\A c \in Conns :
         (is_ai_speaking /\ handle_input_audio_buffer_speech_started(c))
         => (outbox' = << CancelMessage(c) >> /\ audio_queue' = <<>>)]_vars

\* A barge-in just handled: the cancel is the step's only message, frames
\* were taken off the queue and the queue is empty.
C1_Witness ==
    /\ \E c \in Conns : outbox = << CancelMessage(c) >>
    /\ is_user_speaking /\ ~is_ai_speaking
    /\ flushed # {}
    /\ audio_queue = <<>>

\* C2: after a barge-in at most one further frame of the interrupted turn
\* is written to the output device, late audio deltas included.
C2_AtMostOneStaleFrame == staleWritten <= 1

\* C3: the frames written are frames play_audio accepted, in the order of
\* acceptance and each at most once; no frame a flush discarded is written;
\* every accepted frame is in exactly one place: queued, in the drain
\* thread's hand, written, flushed, or given up by the drain thread when the
\* device was closed under it or failed.
WrittenIds == { written[i].id : i \in 1..Len(written) }

HeldIds == { pb[t].held.id : t \in { u \in Threads : pb[u].pc = "hold" } }

Places(id) ==
    << id \in QueueIds(audio_queue), id \in HeldIds, id \in WrittenIds,
       id \in flushed, id \in lost >>

CountTrue(places) == Cardinality({ i \in 1..Len(places) : places[i] })

C4_TurnCreatedRejectsOrTerminates ==
    [][\A c \in Conns :
         (/\ current_chat_id # None
          /\ is_processing \/ is_ai_speaking
          /\ handle_conversation_chat_created(c))
         => (current_chat_id' = current_chat_id \/ ~is_ai_speaking')]_vars

\* C5: a connect() that follows a disconnect() leaves the session connecting
\* with every field of the previous session back at its initial value.
FreshSession ==
    /\ ws # None /\ conn[ws] = "connecting"
    /\ ~is_connected /\ ~is_configured
    /\ conversation_id = None
    /\ current_chat_id = None
    /\ ~is_user_speaking /\ ~is_ai_speaking /\ ~is_processing
    /\ current_user_emotion = NoEmotion

C5_ReconnectIsFresh ==
    [][(lastCall = "disconnect" /\ Connect) => FreshSession']_vars

\* C6: when the transport closes, the session is disconnected and the state
\* of the turn in flight is gone.
C6_CloseDiscardsTurn ==
    [][\A c \in Conns :
         WsClose(c) => (/\ ~is_connected' /\ ~is_configured'
                        /\ current_chat_id' = None
                        /\ ~is_ai_speaking' /\ ~is_processing')]_vars

\* C7: a transport that ended without the caller's disconnect() has had the
\* error callback invoked for it.
C7_FailureSurfaced ==
    \A c \in Conns : (conn[c] = "closed" /\ ~requested[c]) => surfaced[c]

C9_AppendOnlyWhenReady ==
    [][\A i \in 1..Len(outbox') :
         IsAppend(outbox'[i]) =>
           /\ is_connected /\ is_configured
           /\ ws # None /\ conn[ws] = "open" /\ acked[ws]
           /\ outbox'[i].conn = ws
           /\ Len(outbox') = 1
           /\ \E data \in MicFrames :
                  /\ capture_loop(data)
                  /\ outbox'[i].data = B64Encode(data)]_vars

\* A frame was transmitted for a ready session.
C9_Witness ==
    /\ Len(outbox) = 1 /\ IsAppend(outbox[1])
    /\ is_configured /\ is_ready
    /\ B64Decode(outbox[1].data).ok
    /\ B64Decode(outbox[1].data).bytes \in MicFrames

\* C10: at every moment of the round trip the frames captured so far are,
\* byte for byte and in order, the frames written, then the frame in the
\* drain thread's hand, then the frames queued, then the decoded payloads
\* still on the wire: none lost, none duplicated, none reordered.
FrameData(q) == [i \in 1..Len(q) |-> q[i].data]

HeldData ==
    IF \E t \in Threads : pb[t].pc = "hold"
    THEN << pb[CHOOSE t \in Threads : pb[t].pc = "hold"].held.data >>
    ELSE <<>>

Decoded(payloads) ==
    [i \in 1..Len(payloads) |->
        IF B64Decode(payloads[i]).ok THEN B64Decode(payloads[i]).bytes
        ELSE << BadChar >>]

C10_RoundTripPreserves ==
    /\ captured = FrameData(written) \o HeldData \o FrameData(audio_queue)
                    \o Decoded(wire)
    /\ lost = {} /\ flushed = {}
    /\ (mic = <<>> /\ wire = <<>> /\ audio_queue = <<>> /\ HeldData = <<>>)
         => captured = FrameData(written)

\* Every frame of the microphone was written, frames of different lengths.
C10_Witness ==
    /\ mic = <<>>
    /\ Len(written) >= 2
    /\ Len(captured) = Len(written)
    /\ Len(written[1].data) # Len(written[2].data)

\* C11: a turn-failed event leaves the session idle: after its handler,
\* whatever the state before (the assistant speaking included),
\* is_ai_speaking and is_processing are both false.
C11_TurnFailedIsIdle ==
    [][\A c \in Conns :
          handle_conversation_chat_failed(c)
            => (~is_ai_speaking' /\ ~is_processing')]_vars

\* C13: an audio delta whose payload is missing or cannot be decoded is
\* dropped as one message: its handler changes no session field and queues
\* no frame.
BadPayloads == { p \in Payloads : Len(p) = 0 \/ ~B64Decode(p).ok }

C13_BadAudioDropped ==
    [][\A c \in Conns : \A payload \in BadPayloads :
          handle_conversation_audio_delta(c, payload)
            => UNCHANGED <<sessionFields, audio_queue>>]_vars

\* C12: an inbound event whose type the client has no handler for, or a
\* conversation.chat.requires_action event, leaves every session field
\* unchanged, sends no command, and invokes neither the state-change nor
\* the error callback.
UnrecognizedMessages ==
    { msg \in UNION { Messages(c) : c \in Conns } :
        /\ msg.json
        /\ \/ handler_name(msg.event_type) \notin HandlerNames
           \/ msg.event_type = T_conversation_chat_requires_action }

C12_UnrecognizedIsInert ==
    [][\A c \in Conns : \A msg \in UnrecognizedMessages :
          on_ws_message(c, msg)
            => /\ UNCHANGED <<sessionFields, is_ready, audio_queue>>
               /\ outbox' = <<>>
               /\ \A i \in 1..Len(emitted') :
                     emitted'[i].cb \notin { "state", "error" }]_vars

\* An unhandled event arrived in the middle of a turn.
C12_Witness ==
    /\ is_processing /\ is_ai_speaking
    /\ emitted = << Cb("debug", "unhandled event") >>

\* C15: a transcript-final event that yields a user emotion e (the tag the
\* service supplied, else the one detected from the text) sets the last user
\* emotion to e, sends exactly one tone update whose tone is the empathy
\* mapping of e, and invokes the emotion callback exactly once, with e.
EmpathyTone(e) ==
    CASE e = "happy" -> "happy"
      [] e = "sad" -> "sad"
      [] e = "angry" -> "neutral"
      [] e = "surprised" -> "happy"
      [] e = "neutral" -> "neutral"

TranscriptFinal(tag, txt) ==
    [Msg(T_conversation_audio_transcript_completed)
       EXCEPT !.tag = tag, !.txt = txt]

\* The transcript callback of the step carries the text.
Transcribed(txt) ==
    \/ Len(txt) = 0
    \/ Len(emitted') > 0 /\ emitted'[Len(emitted')] = CbData("transcript", txt)

C15_EmotionYieldsToneAndEvent ==
    [][\A c \in Conns : \A tag \in MessageTags : \A txt \in MessageTexts :
          (/\ conn[c] = "open"
           /\ Transcribed(txt)
           /\ on_ws_message(c, TranscriptFinal(tag, txt)))
            => \A e \in { IF tag # NoEmotion THEN tag
                          ELSE detect_emotion_from_text(txt) } :
                  e # NoEmotion
                    => /\ current_user_emotion' = e
                       /\ Len(outbox') = 1
                       /\ outbox'[1].type = "chat.update"
                       /\ outbox'[1].arg = EmpathyTone(e)
                       /\ Cardinality({ i \in 1..Len(emitted') :
                                          emitted'[i].cb = "emotion" }) = 1
                       /\ emitted'[1] = Cb("emotion", e)]_vars

\* An angry user was answered in a neutral tone.
C15_Witness ==
    /\ current_user_emotion = "angry"
    /\ Len(outbox) = 1 /\ outbox[1].arg = "neutral"
    /\ Len(emitted) > 0 /\ emitted[1] = Cb("emotion", "angry")

\* C14: _detect_emotion_from_text returns the category with the highest
\* keyword count when that count is at least 1, a tie going to the first of
\* happy, sad, angry, surprised, and returns none when every count is 0;
\* 'haha' alone gives happy and the Chinese apology alone gives sad.
Priority == [happy |-> 1, sad |-> 2, angry |-> 3, surprised |-> 4]

KeywordCount(category) == score(lower(utterance), category)

C14_DetectIsArgmaxByPriority ==
    detected # Pending =>
        /\ IF \A category \in DOMAIN Priority : KeywordCount(category) = 0
           THEN detected = NoEmotion
           ELSE /\ detected \in DOMAIN Priority
                /\ \A category \in DOMAIN Priority :
                      \/ KeywordCount(category) < KeywordCount(detected)
                      \/ /\ KeywordCount(category) = KeywordCount(detected)
                         /\ Priority[category] >= Priority[detected]
        /\ utterance = << 104, 97, 104, 97 >> => detected = "happy"
        /\ utterance = << 23545, 19981, 36215 >> => detected = "sad"

\* A text with as many sad keywords as happy ones was found happy.
C14_Witness ==
    /\ detected = "happy"
    /\ KeywordCount("sad") = KeywordCount("happy")

\* C16: after a hard device read error in the capture loop the capture
\* pipeline is stopped: is_capturing is false and the device is released,
\* so that a later start_capture() opens a new session.
C16_ReadErrorStopsCapture ==
    [][\A t \in CapThreads :
          CaptureReadError(t) => (~is_capturing' /\ ~input_stream')]_vars

\* C17: after a device write error in the playback loop the playback
\* pipeline is stopped: is_playing is false, so that later frames are
\* dropped by play_audio.
C17_WriteErrorStopsPlayback ==
    [][\A t \in Threads : PlaybackWriteError(t) => ~is_playing']_vars

\* C18: whatever the interleaving of stop_playback() with play_audio() on
\* another thread, once stop_playback() has returned the playback queue is
\* empty and stays empty (until playback is started again).
C18_StoppedQueueIsEmpty == ~is_playing => audio_queue = <<>>

\* C19: a frame passed to play_audio while playback is inactive is never
\* in the playback queue, never in a drain thread's hand and never written
\* to the output device, whatever happens later.
C19_RefusedNeverPlayed ==
    /\ refused \cap (QueueIds(audio_queue) \cup HeldIds \cup WrittenIds) = {}
    /\ pa.pc = "put" => pa.frame.id \notin refused

\* A frame was refused, playback was started afterwards and wrote a frame.
C19_Witness ==
    /\ refused # {}
    /\ is_playing
    /\ \E i \in 1..Len(written) : \E id \in refused : written[i].id > id

\* C20: at most one capture worker is in the read loop of the open device,
\* after any sequence of start_capture() and stop_capture().
C20_OneCaptureWorker ==
    Cardinality({ t \in CapThreads : cap[t] = "read" }) <= 1

(***************************************************************************)
(* Stopping the pipelines                                                  *)
(***************************************************************************)
\* The state stop_capture() leaves: flag reset, no device handle.
CaptureStopped == ~is_capturing /\ ~input_stream

\* The state stop_playback() leaves: flag reset, no device handle, empty queue.
PlaybackStopped == ~is_playing /\ ~output_stream /\ audio_queue = <<>>

NeverStarted ==
    /\ \A t \in CapThreads : cap[t] = "none"
    /\ \A t \in Threads : pb[t].pc = "none"

\* C21: stop_capture() and stop_playback() can be called in any state, also
\* on a pipeline that was never started or is already stopped; each leaves
\* its pipeline stopped (flag reset, no device handle, and for playback an
\* empty queue), and called on a pipeline that is already in that state it
\* changes nothing.
C21_StopIsIdempotent ==
    [][ /\ StopCapture =>
             /\ CaptureStopped'
             /\ CaptureStopped =>
                  UNCHANGED <<is_capturing, input_stream, cap>>
        /\ StopPlayback =>
             /\ PlaybackStopped'
             /\ PlaybackStopped =>
                  UNCHANGED <<is_playing, output_stream, audio_queue, pb,
                              flushed, written, lost>> ]_vars

\* Both stops were called on a handler on which nothing was ever started.
C21_Witness ==
    /\ NeverStarted
    /\ lastCall = "stop_playback"
    /\ CaptureStopped
    /\ PlaybackStopped

(***************************************************************************)
(* The handshake                                                           *)
(***************************************************************************)
\* The callbacks that announce the ready session.
ReadyAnnounced == << Cb("ready", ""), StateChange("idle") >>

\* C22: when chat.updated is handled while the session is connected and
\* not yet configured, the session is configured afterwards, the ready
\* notification was delivered to the orchestrator (which marks itself
\* ready) and the state change to idle was emitted after it.
C22_UpdatedMakesReady ==
    [][ \A c \in Conns : \A cid \in ConversationIds(c) :
          handle_chat_updated(c, cid) /\ is_connected /\ ~is_configured =>
             /\ is_configured'
             /\ is_ready'
             /\ emitted' = ReadyAnnounced ]_vars

\* chat.updated was handled on an open transport and the session is ready.
C22_Witness ==
    /\ is_connected
    /\ is_configured
    /\ is_ready
    /\ emitted = ReadyAnnounced

\* The session configuration command is among the messages of a step.
ConfigSent(out) ==
    \E i \in 1..Len(out) : out[i].type = "chat.update" /\ out[i].arg = "config"

\* C23: the step that handles the transport's open event transmits the
\* session configuration command, without an inbound event in between.
C23_OpenSendsConfig ==
    [][ \A c \in Conns : WsOpen(c) => ConfigSent(outbox') ]_vars

\* C24: the session and turn fields are written by the receive thread
\* only: no call made on the caller's thread and no step of the capture
\* thread changes one of them.
C24_OnlyReceiveThreadWrites ==
    [][ (Connect \/ Disconnect \/ CaptureLoop) =>
           UNCHANGED sessionFields ]_vars

(***************************************************************************)
(* The assistant's turn: sentences and audio                               *)
(***************************************************************************)
\* A tone-tuning update is among the messages of a step.
ToneSent(out) ==
    \E i \in 1..Len(out) : out[i].type = "chat.update" /\ out[i].arg # "config"

EmotionEmitted(em, emotion) ==
    \E i \in 1..Len(em) : em[i] = Cb("emotion", emotion)

\* C29: when a sentence-boundary event carries a text in which an emotion
\* is detected, the step emits the emotion event for it and transmits a
\* tone-tuning update.
C29_SentenceEmotionTunesTone ==
    [][ \A c \in Conns : \A txt \in SentenceTexts :
          (conn[c] = "open" /\ Len(txt) > 0 /\ sentence_start(c, txt)) =>
             \A emotion \in { detect_emotion_from_text(txt) } :
                emotion # NoEmotion =>
                   /\ EmotionEmitted(emitted', emotion)
                   /\ ToneSent(outbox') ]_vars

SpeakingEmitted(em) ==
    \E i \in 1..Len(em) : em[i] = StateChange("speaking")

\* C30: an audio delta makes the client emit the state change to speaking
\* exactly when it is the first audio delta of its turn: the first delta of
\* every turn emits it, also in a turn that follows a failed one, and no
\* later delta of the same turn emits it again, also after a cancel.
C30_SpeakingOncePerTurn ==
    [][ \A c \in Conns : \A payload \in Payloads :
          audio_delta_of_turn(c, payload) =>
             (SpeakingEmitted(emitted') <=> srvTurn \notin voiced) ]_vars

(***************************************************************************)
(* The receive thread and its callbacks                                    *)
(***************************************************************************)
\* C25: a presentation callback that has not returned does not hold up
\* the receive thread: while one is running on an open transport, the
\* thread can still take the next event of that transport.
C25_CallbackDoesNotStall ==
    (rx = "callback" /\ ws # None /\ conn[ws] = "open") => ENABLED ReceiveThread

ErrorReported(em) ==
    \E i \in 1..Len(em) : em[i].cb = "error"

\* C26: when the handling of an inbound message raises, the error callback
\* is invoked for it and the session is left either unconfigured or ready
\* and idle, not in between.
C26_HandlerErrorReported ==
    [][ \A c \in Conns :
          chat_updated_without_data(c) =>
             /\ ErrorReported(emitted')
             /\ is_configured' => is_ready' ]_vars

(***************************************************************************)
(* disconnect() against a send in flight                                   *)
(***************************************************************************)
\* disconnect() has returned and connect() was not called since.
Disconnected == lastCall = "disconnect" /\ ~dc

\* C27: whatever the interleaving of disconnect() with a send in flight on
\* the capture thread, every call returns (a send that fails is logged
\* and dropped), and no step taken after disconnect() has returned
\* transmits a message, until the caller connects again.
C27_NoSendAfterDisconnect ==
    [][ /\ Disconnected => outbox' = <<>>
        /\ (SendTransmit /\ ~(ws # None /\ conn[ws] = "open")) =>
              (tx'.pc = "failed" /\ outbox' = <<>>) ]_vars

\* A send passed its tests, disconnect() ran to its end, and the send then
\* failed on the closed transport and returned.
C27_Witness ==
    /\ Disconnected
    /\ tx.pc = "failed"
    /\ outbox = <<>>

(***************************************************************************)
(* The level monitor                                                       *)
(***************************************************************************)
\* A frame: a whole number of 16-bit samples.
IsFrame(audio_data) == Len(audio_data) % 2 = 0

AllZero(audio_data) == \A i \in 1..Len(audio_data) : audio_data[i] = 0

\* Every sample is 32767 or -32768.
FullScale(audio_data) ==
    /\ Len(audio_data) > 0
    /\ \A i \in 1..Len(unpack(audio_data)) :
          unpack(audio_data)[i] \in { 32767, -32768 }

\* C28: for every frame, update returns a level between 0 and 1; for a
\* full-scale frame the level before smoothing is 1.0; for an all-zero
\* frame the level returned is not above the level before the update and
\* at most half of it, so that repeated all-zero frames bring it to 0 from
\* any level.  The smoothed level is computed without rounding.
C28_LevelInRange ==
    [][ \A audio_data \in LevelFrames :
          (IsFrame(audio_data) /\ update(audio_data)) =>
             /\ ~monitor'.raised
             /\ monitor'.current_level >= 0
             /\ monitor'.current_level <= One
             /\ (monitor.smoothing * monitor.current_level
                 + (10 - monitor.smoothing) * monitor'.normalized) % 10 = 0
             /\ FullScale(audio_data) => monitor'.normalized = One
             /\ AllZero(audio_data) =>
                  /\ monitor'.normalized = 0
                  /\ monitor'.current_level <= monitor.current_level
                  /\ 2 * monitor'.current_level <= monitor.current_level ]_vars

\* After full-scale frames had raised the level, two all-zero frames in a
\* row have brought it down to less than a fifth of full level.
C28_Witness ==
    /\ monitor.updates = MaxUpdates
    /\ AllZero(monitor.audio_data) /\ Len(monitor.audio_data) > 0
    /\ monitor.normalized = 0
    /\ monitor.current_level > 0
    /\ 5 * monitor.current_level < One


\* C31: on a speech-started event received while the assistant is speaking
\* the playback queue is flushed no later than the cancel is sent: there is
\* no state in which the cancel of a barge-in has gone out and frames still
\* await playback.
C31_FlushNotAfterCancel == ~(rx = "cancelled" /\ audio_queue # <<>>)

\* C32: the conversation identifier is stable across turns: once set, it
\* keeps its value as long as the connection is open, whatever event is
\* handled, a later chat.updated without an identifier included.
C32_ConversationIdStable ==
    [][ \A c \in Conns :
          (/\ conversation_id # None
           /\ ws = c /\ conn[c] = "open" /\ conn'[c] = "open")
          => conversation_id' = conversation_id ]_vars

\* C33: the playback queue is bounded: the number of frames awaiting
\* playback stays within a fixed capacity however fast the audio deltas
\* arrive; with a capacity below the number of frames a run delivers, the
\* queue never holds them all.
C33_QueueBounded ==
    \E capacity \in 1..(MaxFrames - 1) : Len(audio_queue) <= capacity

\* C34: clear_playback_queue is atomic with respect to play_audio and the
\* drain loop: no frame that was in the queue when it was called is written
\* to the device, and when it has returned every one of them was discarded
\* by it.
C34_ClearIsAtomic ==
    /\ clearing.queued \cap WrittenIds = {}
    /\ clearing.pc = "idle" => clearing.queued \subseteq flushed

\* An emotion event is among the callbacks of a step.
AnyEmotionEmitted(em) == \E i \in 1..Len(em) : em[i].cb = "emotion"

\* No emotion is found for a text: it is empty or no keyword is in it.
NoEmotionIn(txt) ==
    Len(txt) = 0 \/ detect_emotion_from_text(txt) = NoEmotion

\* C35: a transcript-final event with no remote tag and a sentence-boundary
\* event, each with a text in which no emotion is found, emit no emotion
\* event, send no tone-tuning update and leave the last user emotion as it
\* was.
C35_NoEmotionNoEvent ==
    [][ \A c \in Conns : \A txt \in { t \in ToneTexts : NoEmotionIn(t) } :
          (conn[c] = "open"
           /\ (transcript_completed(c, NoEmotion, txt) \/ sentence_start(c, txt)))
          => /\ ~AnyEmotionEmitted(emitted')
             /\ ~ToneSent(outbox')
             /\ current_user_emotion' = current_user_emotion ]_vars

\* A user found happy said a text with no keyword: the transcript was
\* reported, nothing was sent and the last user emotion is still happy.
C35_Witness ==
    /\ current_user_emotion = "happy"
    /\ emitted = << CbData("transcript", << 111, 107 >>) >>
    /\ outbox = <<>>

\* The ready callback or the state change to idle is among the callbacks of
\* a step.
ReadyOrIdleEmitted(em) ==
    \E i \in 1..Len(em) : em[i] \in { Cb("ready", ""), StateChange("idle") }

\* C36: the ready notification fires once per connection: a chat.updated
\* handled when the session is already ready, such as the acknowledgment of
\* a tone-tuning update, invokes neither the ready callback nor the state
\* change to idle.
C36_ReadyOncePerConnection ==
    [][ \A c \in Conns : \A cid \in ConversationIds(c) :
          (is_configured /\ is_ready /\ acked[c] /\ handle_chat_updated(c, cid))
          => ~ReadyOrIdleEmitted(emitted') ]_vars

\* Every state change among the callbacks of a step is the one to
\* listening.
OnlyListeningEmitted(em) ==
    \A i \in 1..Len(em) : em[i].cb = "state" => em[i] = StateChange("listening")

\* An event of the assistant's side is handled: turn completed, audio
\* completed, turn failed, or an audio delta.
AssistantEvent ==
    \E c \in Conns :
        \/ handle_conversation_audio_completed(c)
        \/ handle_conversation_chat_completed(c)
        \/ handle_conversation_chat_failed(c)
        \/ \E payload \in Payloads : audio_delta_of_turn(c, payload)

\* C37: while the user is speaking, from a speech-started event to the next
\* speech-stopped event, no event of the assistant's side (turn completed,
\* audio completed, turn failed, a late audio delta) makes the client emit
\* a state change other than the one to listening.
C37_UserSpeakingHasPriority ==
    [][ (is_user_speaking /\ AssistantEvent)
          => OnlyListeningEmitted(emitted') ]_vars

\* The drain threads waiting on the queue or holding a frame taken from it.
Draining == { t \in Threads : pb[t].pc \in { "get", "hold" } }

WrittenInOrder ==
    \A i, j \in 1..Len(written) : i < j => written[i].id < written[j].id

\* C38: after any sequence of start_playback() and stop_playback() calls at
\* most one drain thread takes frames from the playback queue, and the
\* frames are written in the order play_audio accepted them.
C38_OneDrainThread ==
    /\ Cardinality(Draining) <= 1
    /\ WrittenInOrder

\* The transports whose receive loop delivers events: those that are open.
Delivering == { c \in Conns : conn[c] = "open" }

\* C39: after any sequence of connect() and disconnect() calls at most one
\* receive loop is delivering events into the session.
C39_OneReceiveLoop == Cardinality(Delivering) <= 1

\* A tone-tuning update with the given tone is among the messages of a step.
ToneSentAs(out, tone) ==
    \E i \in 1..Len(out) : out[i].type = "chat.update" /\ out[i].arg = tone

\* The values under which a user is surprised: the client's own and the
\* remote service's.
Surprised == { "surprised", "surprise" }

\* C40: a transcript-final event whose user emotion is surprised, detected
\* from the text or supplied by the remote service as the tag "surprise",
\* makes the client send a tone-tuning update that carries happy.
C40_SurprisedYieldsHappy ==
    [][ \A c \in Conns : \A tag \in ToneTags : \A txt \in ToneTexts :
          (conn[c] = "open" /\ transcript_completed(c, tag, txt)) =>
             \A emotion \in { IF tag # NoEmotion THEN tag
                              ELSE IF Len(txt) > 0
                              THEN detect_emotion_from_text(txt)
                              ELSE NoEmotion } :
                emotion \in Surprised => ToneSentAs(outbox', "happy") ]_vars
======================================================================
